---- MODULE Spec2Model ----
(***************************************************************************)
(* Excel chatbot: the account, session and chat handlers of the server     *)
(* variants                                                                *)
(*   simple    backend/src/server-simple.js, lines 1-1489                  *)
(*   fixed     backend/src/server-simple.js, lines 1490-2782               *)
(*   demo      unnamed/part_001, lines 277-676                             *)
(*   hardened  backend/src/server.js + routes/auth.js + routes/chat.js     *)
(*             + models/User.js + middleware/validation.js                 *)
(* Strings are sequences of one-character strings; a character outside     *)
(* ASCII is written as "uXXXX", its code point.  The empty sequence is an   *)
(* absent (undefined) or empty value: both are falsy in the handlers.      *)
(* Time is counted in units of 15 minutes.                                 *)
(* The limiter that counts every request of an IP address (100 per 15      *)
(* minutes) is modelled for the chat route of the hardened server only     *)
(* (ChatRequest).  Not modelled: the sanitizer of request bodies (it       *)
(* leaves the inputs used here as they are), password change and reset.    *)
(* The realtime channel (unnamed/part_001, lines 1-276) is modelled by     *)
(* sockets and the actions Connect, JoinChat, LeaveChat, SendMessage and   *)
(* Disconnect.  The process is modelled from the moment it listens: proc   *)
(* holds its open connections, pending the register and login handlers    *)
(* that run interleaved.                                                   *)
(***************************************************************************)
EXTENDS Integers, Sequences, FiniteSets, TLC

VARIABLES
  variant,      \* which server is running
  now,          \* Date.now(), in units of 15 minutes
  users,        \* the user store: Map id -> user (simple, fixed, demo), User collection (hardened)
  nextId,       \* number of ids generated so far
  session,      \* req.session of each browser session
  chatHistory,  \* Map identity -> list of entries (simple, fixed)
  authHits,     \* the stores of the rate limiters: key -> hits in the current window
  sockets,      \* the connected sockets of the realtime channel: id -> user and rooms
  functionStore, \* the names in the ExcelFunction collection (hardened)
  proc,         \* the server process: its phase and its open connections (hardened)
  pending,      \* the auth handlers that have read the user store and not yet written (hardened)
  last          \* the request handled by the latest step and its response

vars == <<variant, now, users, nextId, session, chatHistory, authHits, sockets,
         functionStore, proc, pending, last>>

-----------------------------------------------------------------------------
(* Bounds of the model *)

MaxUsers == 2
MaxNow == 2
MaxHorizon == 10
MaxDay == 2
UsageLeft == 2

-----------------------------------------------------------------------------
(* Characters and strings *)

None == <<>>

UpperChars == <<"A","B","C","D","E","F","G","H","I","J","K","L","M",
                "N","O","P","Q","R","S","T","U","V","W","X","Y","Z">>
LowerChars == <<"a","b","c","d","e","f","g","h","i","j","k","l","m",
                "n","o","p","q","r","s","t","u","v","w","x","y","z">>
DigitChars == <<"0","1","2","3","4","5","6","7","8","9">>

Range(f) == {f[i] : i \in DOMAIN f}

LowerOf(c) ==
  IF c \in Range(UpperChars)
    THEN LowerChars[CHOOSE i \in DOMAIN UpperChars : UpperChars[i] = c]
    ELSE c

toLowerCase(str) == [i \in 1..Len(str) |-> LowerOf(str[i])]

UpperOf(c) ==
  IF c \in Range(LowerChars)
    THEN UpperChars[CHOOSE i \in DOMAIN LowerChars : LowerChars[i] = c]
    ELSE c

toUpperCase(str) == [i \in 1..Len(str) |-> UpperOf(str[i])]

includes(str, search) ==
  \E i \in 0..(Len(str) - Len(search)) : SubSeq(str, i + 1, i + Len(search)) = search

-----------------------------------------------------------------------------
(* Inputs *)

Variants == {"simple", "fixed", "demo", "hardened"}
Sessions == {"s1", "s2"}

U_ab == <<"a","b">>
U_demo == <<"d","e","m","o">>
U_alice == <<"a","l","i","c","e">>
Usernames == {None, U_ab, U_demo, U_alice}

P_abc == <<"a","b","c">>
P_demo123 == <<"d","e","m","o","1","2","3">>
P_strong == <<"P","a","s","s","w","0","r","d","!">>
Passwords == {None, P_abc, P_demo123, P_strong}

E_bad == <<"b","a","d">>
E_a == <<"a","@","x",".","i","o">>
E_A == <<"A","@","x",".","i","o">>
E_b == <<"b","@","x",".","i","o">>
Emails == {None, E_bad, E_a, E_A}

Tokens == {"none", "forged", "issued"}

\* chat messages
M_weather ==
  <<"w","h","a","t"," ","i","s"," ","t","h","e"," ","w","e","a","t","h","e","r"," ","t","o","d",
    "a","y">>
M_howsum ==
  <<"h","o","w"," ","t","o"," ","u","s","e"," ","S","U","M">>
M_sumja ==
  <<"S","U","M","u95A2","u6570","u306E","u4F7F","u3044","u65B9">>
M_sum ==
  <<"s","u","m">>
M_suuchi ==
  <<"u6570","u5024">>
Messages == {None, M_weather, M_howsum, M_sumja, M_sum, M_suuchi}

-----------------------------------------------------------------------------
(* Module bindings *)

\* module.exports of utils/logger: an object holding the winston logger under
\* the key "logger"; validation.js, csrf.js and server.js bind the whole object
\* to `logger` and call logger.warn / logger.error on it.
loggerExports ==
  {"logger", "securityLogger", "auditLogger", "logSecurityEvent", "logAuditEvent",
   "logUserAction", "logAPICall", "logDBOperation", "logAuthEvent", "logError",
   "logPerformance", "logChatInteraction"}

\* logger.<method>(...) returns normally iff the bound object has the method.
loggerCall(method) == method \in loggerExports

-----------------------------------------------------------------------------
(* ExcelAI service (services/excelAI) *)

\* the function table, flattened in the order Object.entries visits it
excelFunctions ==
  <<
    [name |-> <<"S","U","M">>,
     syntax |-> <<"S","U","M","(","n","u","m","b","e","r","1",","," ","[","n","u","m","b","e","r","2","]",","," ",".",".",".",")">>,
     description |-> <<"u7BC4","u56F2","u5185","u306E","u6570","u5024","u3092","u5408","u8A08","u3057","u307E","u3059">>],
    [name |-> <<"S","U","M","I","F">>,
     syntax |-> <<"S","U","M","I","F","(","r","a","n","g","e",","," ","c","r","i","t","e","r","i","a",","," ","[","s","u","m","_","r","a","n","g","e","]",")">>,
     description |-> <<"u6761","u4EF6","u306B","u4E00","u81F4","u3059","u308B","u30BB","u30EB","u306E","u5024","u3092","u5408","u8A08","u3057","u307E","u3059">>],
    [name |-> <<"S","U","M","I","F","S">>,
     syntax |-> <<"S","U","M","I","F","S","(","s","u","m","_","r","a","n","g","e",","," ","c","r","i","t","e","r","i","a","_","r","a","n","g","e","1",","," ","c","r","i","t","e","r","i","a","1",","," ","[","c","r","i","t","e","r","i","a","_","r","a","n","g","e","2",","," ","c","r","i","t","e","r","i","a","2","]",","," ",".",".",".",")">>,
     description |-> <<"u8907","u6570","u306E","u6761","u4EF6","u306B","u4E00","u81F4","u3059","u308B","u30BB","u30EB","u306E","u5024","u3092","u5408","u8A08","u3057","u307E","u3059">>],
    [name |-> <<"A","V","E","R","A","G","E">>,
     syntax |-> <<"A","V","E","R","A","G","E","(","n","u","m","b","e","r","1",","," ","[","n","u","m","b","e","r","2","]",","," ",".",".",".",")">>,
     description |-> <<"u6570","u5024","u306E","u5E73","u5747","u5024","u3092","u8A08","u7B97","u3057","u307E","u3059">>],
    [name |-> <<"C","O","U","N","T">>,
     syntax |-> <<"C","O","U","N","T","(","v","a","l","u","e","1",","," ","[","v","a","l","u","e","2","]",","," ",".",".",".",")">>,
     description |-> <<"u6570","u5024","u304C","u5165","u3063","u3066","u3044","u308B","u30BB","u30EB","u306E","u500B","u6570","u3092","u6570","u3048","u307E","u3059">>],
    [name |-> <<"C","O","U","N","T","I","F">>,
     syntax |-> <<"C","O","U","N","T","I","F","(","r","a","n","g","e",","," ","c","r","i","t","e","r","i","a",")">>,
     description |-> <<"u6761","u4EF6","u306B","u4E00","u81F4","u3059","u308B","u30BB","u30EB","u306E","u500B","u6570","u3092","u6570","u3048","u307E","u3059">>],
    [name |-> <<"V","L","O","O","K","U","P">>,
     syntax |-> <<"V","L","O","O","K","U","P","(","l","o","o","k","u","p","_","v","a","l","u","e",","," ","t","a","b","l","e","_","a","r","r","a","y",","," ","c","o","l","_","i","n","d","e","x","_","n","u","m",","," ","[","r","a","n","g","e","_","l","o","o","k","u","p","]",")">>,
     description |-> <<"u7E26","u65B9","u5411","u306E","u8868","u304B","u3089","u5024","u3092","u691C","u7D22","u3057","u3066","u8FD4","u3057","u307E","u3059">>],
    [name |-> <<"H","L","O","O","K","U","P">>,
     syntax |-> <<"H","L","O","O","K","U","P","(","l","o","o","k","u","p","_","v","a","l","u","e",","," ","t","a","b","l","e","_","a","r","r","a","y",","," ","r","o","w","_","i","n","d","e","x","_","n","u","m",","," ","[","r","a","n","g","e","_","l","o","o","k","u","p","]",")">>,
     description |-> <<"u6A2A","u65B9","u5411","u306E","u8868","u304B","u3089","u5024","u3092","u691C","u7D22","u3057","u3066","u8FD4","u3057","u307E","u3059">>],
    [name |-> <<"I","N","D","E","X">>,
     syntax |-> <<"I","N","D","E","X","(","a","r","r","a","y",","," ","r","o","w","_","n","u","m",","," ","[","c","o","l","u","m","n","_","n","u","m","]",")">>,
     description |-> <<"u914D","u5217","u304B","u3089","u6307","u5B9A","u3057","u305F","u4F4D","u7F6E","u306E","u5024","u3092","u8FD4","u3057","u307E","u3059">>],
    [name |-> <<"M","A","T","C","H">>,
     syntax |-> <<"M","A","T","C","H","(","l","o","o","k","u","p","_","v","a","l","u","e",","," ","l","o","o","k","u","p","_","a","r","r","a","y",","," ","[","m","a","t","c","h","_","t","y","p","e","]",")">>,
     description |-> <<"u914D","u5217","u5185","u3067","u306E","u5024","u306E","u76F8","u5BFE","u7684","u306A","u4F4D","u7F6E","u3092","u8FD4","u3057","u307E","u3059">>],
    [name |-> <<"I","F">>,
     syntax |-> <<"I","F","(","l","o","g","i","c","a","l","_","t","e","s","t",","," ","v","a","l","u","e","_","i","f","_","t","r","u","e",","," ","[","v","a","l","u","e","_","i","f","_","f","a","l","s","e","]",")">>,
     description |-> <<"u6761","u4EF6","u306B","u57FA","u3065","u3044","u3066","u5024","u3092","u8FD4","u3057","u307E","u3059">>],
    [name |-> <<"I","F","S">>,
     syntax |-> <<"I","F","S","(","l","o","g","i","c","a","l","_","t","e","s","t","1",","," ","v","a","l","u","e","_","i","f","_","t","r","u","e","1",","," ","[","l","o","g","i","c","a","l","_","t","e","s","t","2",","," ","v","a","l","u","e","_","i","f","_","t","r","u","e","2","]",","," ",".",".",".",")">>,
     description |-> <<"u8907","u6570","u306E","u6761","u4EF6","u3092","u30C1","u30A7","u30C3","u30AF","u3057","u3066","u6700","u521D","u306B","u771F","u3068","u306A","u308B","u6761","u4EF6","u306E","u5024","u3092","u8FD4","u3057","u307E","u3059">>],
    [name |-> <<"A","N","D">>,
     syntax |-> <<"A","N","D","(","l","o","g","i","c","a","l","1",","," ","[","l","o","g","i","c","a","l","2","]",","," ",".",".",".",")">>,
     description |-> <<"u5168","u3066","u306E","u6761","u4EF6","u304C","u771F","u306E","u5834","u5408","u306B","T","R","U","E","u3092","u8FD4","u3057","u307E","u3059">>],
    [name |-> <<"O","R">>,
     syntax |-> <<"O","R","(","l","o","g","i","c","a","l","1",","," ","[","l","o","g","i","c","a","l","2","]",","," ",".",".",".",")">>,
     description |-> <<"u3044","u305A","u308C","u304B","u306E","u6761","u4EF6","u304C","u771F","u306E","u5834","u5408","u306B","T","R","U","E","u3092","u8FD4","u3057","u307E","u3059">>],
    [name |-> <<"C","O","N","C","A","T","E","N","A","T","E">>,
     syntax |-> <<"C","O","N","C","A","T","E","N","A","T","E","(","t","e","x","t","1",","," ","[","t","e","x","t","2","]",","," ",".",".",".",")">>,
     description |-> <<"u30C6","u30AD","u30B9","u30C8","u3092","u9023","u7D50","u3057","u307E","u3059">>],
    [name |-> <<"L","E","F","T">>,
     syntax |-> <<"L","E","F","T","(","t","e","x","t",","," ","[","n","u","m","_","c","h","a","r","s","]",")">>,
     description |-> <<"u30C6","u30AD","u30B9","u30C8","u306E","u5DE6","u304B","u3089","u6307","u5B9A","u3057","u305F","u6587","u5B57","u6570","u3092","u53D6","u5F97","u3057","u307E","u3059">>],
    [name |-> <<"R","I","G","H","T">>,
     syntax |-> <<"R","I","G","H","T","(","t","e","x","t",","," ","[","n","u","m","_","c","h","a","r","s","]",")">>,
     description |-> <<"u30C6","u30AD","u30B9","u30C8","u306E","u53F3","u304B","u3089","u6307","u5B9A","u3057","u305F","u6587","u5B57","u6570","u3092","u53D6","u5F97","u3057","u307E","u3059">>],
    [name |-> <<"M","I","D">>,
     syntax |-> <<"M","I","D","(","t","e","x","t",","," ","s","t","a","r","t","_","n","u","m",","," ","n","u","m","_","c","h","a","r","s",")">>,
     description |-> <<"u30C6","u30AD","u30B9","u30C8","u306E","u9014","u4E2D","u304B","u3089","u6307","u5B9A","u3057","u305F","u6587","u5B57","u6570","u3092","u53D6","u5F97","u3057","u307E","u3059">>],
    [name |-> <<"T","O","D","A","Y">>,
     syntax |-> <<"T","O","D","A","Y","(",")">>,
     description |-> <<"u4ECA","u65E5","u306E","u65E5","u4ED8","u3092","u8FD4","u3057","u307E","u3059">>],
    [name |-> <<"D","A","T","E">>,
     syntax |-> <<"D","A","T","E","(","y","e","a","r",","," ","m","o","n","t","h",","," ","d","a","y",")">>,
     description |-> <<"u6307","u5B9A","u3057","u305F","u5E74","u6708","u65E5","u306E","u65E5","u4ED8","u3092","u4F5C","u6210","u3057","u307E","u3059">>],
    [name |-> <<"D","A","T","E","D","I","F">>,
     syntax |-> <<"D","A","T","E","D","I","F","(","s","t","a","r","t","_","d","a","t","e",","," ","e","n","d","_","d","a","t","e",","," ","u","n","i","t",")">>,
     description |-> <<"2","u3064","u306E","u65E5","u4ED8","u306E","u5DEE","u3092","u8A08","u7B97","u3057","u307E","u3059">>]
  >>

problemSolvers ==
  <<
    <<"u91CD","u8907","u30C7","u30FC","u30BF","u3092","u524A","u9664","u3057","u305F","u3044">>,
    <<"u6761","u4EF6","u306B","u5408","u3046","u30C7","u30FC","u30BF","u3092","u30AB","u30A6","u30F3","u30C8","u3057","u305F","u3044">>,
    <<"u58F2","u4E0A","u306E","u5408","u8A08","u3092","u8A08","u7B97","u3057","u305F","u3044">>,
    <<"u65E5","u4ED8","u306E","u5DEE","u3092","u8A08","u7B97","u3057","u305F","u3044">>
  >>

K_vba == <<"v","b","a">>
K_macro == <<"u30DE","u30AF","u30ED">>
K_auto == <<"u81EA","u52D5">>

\* module.exports of the service: an object holding the class under the key
\* "ExcelAI"; server-simple.js binds the whole object to `ExcelAI` and calls
\* ExcelAI.generateResponse on it.
excelAIExports == {"ExcelAI", "excelFunctions", "vbaTemplates", "problemSolvers"}

\* ExcelAI.searchFunction(query): the entries whose lower-cased name or
\* description contains the lower-cased query
searchFunction(query) ==
  LET lowerQuery == toLowerCase(query)
      hit(func) == \/ includes(toLowerCase(func.name), lowerQuery)
                   \/ includes(toLowerCase(func.description), lowerQuery)
  IN SelectSeq(excelFunctions, hit)

\* ExcelAI.solveProblem(problem): the first key that contains, or is contained
\* in, the lower-cased problem; None when there is none
solveProblem(problem) ==
  LET lowerProblem == toLowerCase(problem)
      hit(key) == \/ includes(lowerProblem, toLowerCase(key))
                  \/ includes(toLowerCase(key), lowerProblem)
      found == SelectSeq(problemSolvers, hit)
  IN IF found = <<>> THEN None ELSE found[1]

\* ExcelAI.generateResponse(query); vba is TRUE when a template was generated
generateResponse(query) ==
  LET functions == searchFunction(query)
      vba == \/ includes(toLowerCase(query), K_vba)
             \/ includes(toLowerCase(query), K_macro)
             \/ includes(toLowerCase(query), K_auto)
      solution == solveProblem(query)
  IN [functions |-> functions, vba |-> vba, solution |-> solution,
      suggestions |-> (Len(functions) = 0 /\ ~vba /\ solution = None)]

-----------------------------------------------------------------------------
(* services/excelAI: generateVBA and createCustomVBA *)

\* vbaTemplates, in the order of Object.entries; code is the first line of the template's code
vbaTemplates ==
  <<
    [category |-> "basic",
     key |-> <<"c","o","p","y","D","a","t","a">>,
     name |-> <<"u30C7","u30FC","u30BF","u30B3","u30D4","u30FC">>,
     description |-> <<"u7BC4","u56F2","u306E","u30C7","u30FC","u30BF","u3092","u5225","u306E","u5834","u6240","u306B","u30B3","u30D4","u30FC">>,
     code |-> <<"S","u","b"," ","C","o","p","y","D","a","t","a","(",")">>],
    [category |-> "basic",
     key |-> <<"f","o","r","m","a","t","C","e","l","l","s">>,
     name |-> <<"u30BB","u30EB","u66F8","u5F0F","u8A2D","u5B9A">>,
     description |-> <<"u30BB","u30EB","u306E","u66F8","u5F0F","u3092","u4E00","u62EC","u8A2D","u5B9A">>,
     code |-> <<"S","u","b"," ","F","o","r","m","a","t","C","e","l","l","s","(",")">>],
    [category |-> "basic",
     key |-> <<"a","u","t","o","F","i","l","t","e","r">>,
     name |-> <<"u30AA","u30FC","u30C8","u30D5","u30A3","u30EB","u30BF","u30FC","u8A2D","u5B9A">>,
     description |-> <<"u30C7","u30FC","u30BF","u306B","u30AA","u30FC","u30C8","u30D5","u30A3","u30EB","u30BF","u30FC","u3092","u9069","u7528">>,
     code |-> <<"S","u","b"," ","S","e","t","A","u","t","o","F","i","l","t","e","r","(",")">>],
    [category |-> "dataProcessing",
     key |-> <<"r","e","m","o","v","e","B","l","a","n","k","R","o","w","s">>,
     name |-> <<"u7A7A","u767D","u884C","u524A","u9664">>,
     description |-> <<"u7A7A","u767D","u884C","u3092","u4E00","u62EC","u524A","u9664">>,
     code |-> <<"S","u","b"," ","R","e","m","o","v","e","B","l","a","n","k","R","o","w","s","(",")">>],
    [category |-> "dataProcessing",
     key |-> <<"s","o","r","t","D","a","t","a">>,
     name |-> <<"u30C7","u30FC","u30BF","u30BD","u30FC","u30C8">>,
     description |-> <<"u8907","u6570","u6761","u4EF6","u3067","u30C7","u30FC","u30BF","u3092","u4E26","u3073","u66FF","u3048">>,
     code |-> <<"S","u","b"," ","S","o","r","t","D","a","t","a","(",")">>],
    [category |-> "dataProcessing",
     key |-> <<"c","r","e","a","t","e","P","i","v","o","t","T","a","b","l","e">>,
     name |-> <<"u30D4","u30DC","u30C3","u30C8","u30C6","u30FC","u30D6","u30EB","u4F5C","u6210">>,
     description |-> <<"u30C7","u30FC","u30BF","u304B","u3089","u30D4","u30DC","u30C3","u30C8","u30C6","u30FC","u30D6","u30EB","u3092","u81EA","u52D5","u4F5C","u6210">>,
     code |-> <<"S","u","b"," ","C","r","e","a","t","e","P","i","v","o","t","T","a","b","l","e","(",")">>],
    [category |-> "fileOperations",
     key |-> <<"s","a","v","e","A","s","C","S","V">>,
     name |-> <<"C","S","V","u4FDD","u5B58">>,
     description |-> <<"u73FE","u5728","u306E","u30B7","u30FC","u30C8","u3092","C","S","V","u3067","u4FDD","u5B58">>,
     code |-> <<"S","u","b"," ","S","a","v","e","A","s","C","S","V","(",")">>],
    [category |-> "fileOperations",
     key |-> <<"i","m","p","o","r","t","C","S","V">>,
     name |-> <<"C","S","V","u8AAD","u307F","u8FBC","u307F">>,
     description |-> <<"C","S","V","u30D5","u30A1","u30A4","u30EB","u3092","u30A4","u30F3","u30DD","u30FC","u30C8">>,
     code |-> <<"S","u","b"," ","I","m","p","o","r","t","C","S","V","(",")">>],
    [category |-> "advanced",
     key |-> <<"e","m","a","i","l","S","e","n","d","e","r">>,
     name |-> <<"u30E1","u30FC","u30EB","u9001","u4FE1">>,
     description |-> <<"O","u","t","l","o","o","k","u3067","u30E1","u30FC","u30EB","u3092","u81EA","u52D5","u9001","u4FE1">>,
     code |-> <<"S","u","b"," ","S","e","n","d","E","m","a","i","l","(",")">>],
    [category |-> "advanced",
     key |-> <<"w","e","b","S","c","r","a","p","i","n","g">>,
     name |-> <<"W","e","b","u30B9","u30AF","u30EC","u30A4","u30D4","u30F3","u30B0">>,
     description |-> <<"W","e","b","u30DA","u30FC","u30B8","u304B","u3089","u30C7","u30FC","u30BF","u3092","E","x","c","e","l","u306B","u53D6","u5F97">>,
     code |-> <<"S","u","b"," ","W","e","b","S","c","r","a","p","i","n","g","(",")">>]
  >>

\* the templates of createCustomVBA, in the order of Object.entries; code is
\* the first line of the template's code
customTemplates ==
  <<
    [key |-> <<"u30EB","u30FC","u30D7","u51E6","u7406">>,
     code |-> <<"S","u","b"," ","L","o","o","p","E","x","a","m","p","l","e","(",")">>],
    [key |-> <<"u30BB","u30EB","u64CD","u4F5C">>,
     code |-> <<"S","u","b"," ","C","e","l","l","O","p","e","r","a","t","i","o","n","(",")">>],
    [key |-> <<"u30D5","u30A1","u30A4","u30EB","u64CD","u4F5C">>,
     code |-> <<"S","u","b"," ","F","i","l","e","O","p","e","r","a","t","i","o","n","(",")">>]
  >>

T_customName ==
  <<"u30AB","u30B9","u30BF","u30E0","u30DE","u30AF","u30ED">>
T_processing ==
  <<"u306E","u51E6","u7406">>
T_skeletonHead ==
  <<"S","u","b"," ","C","u","s","t","o","m","M","a","c","r","o","(",")","\n"," "," "," "," ",
    "'"," ">>
T_skeletonTail ==
  <<"u306E","u51E6","u7406","u3092","u3053","u3053","u306B","u8A18","u8FF0","u3057","u3066",
    "u304F","u3060","u3055","u3044","\n"," "," "," "," ","\n"," "," "," "," ","'"," ","u4F8B",
    ":"," ","u30BB","u30EB","u306B","u5024","u3092","u8A2D","u5B9A","\n"," "," "," "," ","R",
    "a","n","g","e","(","\"","A","1","\"",")",".","V","a","l","u","e"," ","="," ","\"","u51E6",
    "u7406","u7D50","u679C","\"","\n"," "," "," "," ","\n"," "," "," "," ","M","s","g","B","o",
    "x"," ","\"","u51E6","u7406","u304C","u5B8C","u4E86","u3057","u307E","u3057","u305F","\"",
    "\n","E","n","d"," ","S","u","b">>

\* ExcelAI.createCustomVBA(request): the first custom template whose key the
\* lower-cased request contains, else the default template built around the
\* request
createCustomVBA(request) ==
  LET hit(tpl) == includes(toLowerCase(request), toLowerCase(tpl.key))
      found == SelectSeq(customTemplates, hit)
  IN IF found # <<>> THEN
       [category |-> "custom", name |-> found[1].key,
        description |-> request \o T_processing, code |-> found[1].code]
     ELSE
       [category |-> "basic", name |-> T_customName, description |-> request,
        code |-> T_skeletonHead \o request \o T_skeletonTail]

\* ExcelAI.generateVBA(request): the first template, in table order, whose key
\* the lower-cased request contains or whose lower-cased name or description
\* contains the lower-cased request; createCustomVBA when there is none
generateVBA(request) ==
  LET lowerRequest == toLowerCase(request)
      hit(tpl) == \/ includes(lowerRequest, tpl.key)
                  \/ includes(toLowerCase(tpl.name), lowerRequest)
                  \/ includes(toLowerCase(tpl.description), lowerRequest)
      found == SelectSeq(vbaTemplates, hit)
  IN IF found # <<>> THEN
       [category |-> found[1].category, name |-> found[1].name,
        description |-> found[1].description, code |-> found[1].code]
     ELSE createCustomVBA(request)

\* the condition under which generateResponse calls generateVBA
wantsVBA(query) ==
  \/ includes(toLowerCase(query), K_vba)
  \/ includes(toLowerCase(query), K_macro)
  \/ includes(toLowerCase(query), K_auto)

\* response.vba of ExcelAI.generateResponse(query); None stands for null
responseVBA(query) == IF wantsVBA(query) THEN generateVBA(query) ELSE None

-----------------------------------------------------------------------------
(* hardened server: csrfProtection (middleware/csrf.js) and authLimiter *)

\* tokens.verify(secret, token): only a token created from the session's secret
verify(csrf, token) == csrf = "issued" /\ token = "issued"

\* req.session.csrfSecret after csrfProtection ran
csrfSecretAfter(csrf) == IF csrf = "none" THEN "secret" ELSE csrf

\* the status csrfProtection answers on a token that does not verify:
\* it calls logger.warn before res.status(403)
csrfRejectStatus == IF loggerCall("warn") THEN 403 ELSE 500

AuthMax == 5
AuthWindow == 1
ClientIp == "ip"

\* keyGenerator of authLimiter
authKey(username, email) == <<"auth", ClientIp, IF username # None THEN username ELSE email>>

hitsOf(key) == IF key \in DOMAIN authHits THEN authHits[key] ELSE 0

\* one more hit under the key; the count saturates past the limit
countHit(key) ==
  [k \in DOMAIN authHits \cup {key} |->
     IF k = key THEN (IF hitsOf(key) > AuthMax THEN hitsOf(key) ELSE hitsOf(key) + 1)
                ELSE authHits[k]]

NoHits == [k \in {} |-> 0]

\* no socket is connected
NoSockets == [k \in {} |-> 0]

\* the process after server.listen: no connection is open
Listening == [phase |-> "listening", conns |-> {}, cut |-> {}, closed |-> FALSE, exitCode |-> 0]

\* no handler is between its read and its write
NoPending == {}

-----------------------------------------------------------------------------
(* Records *)

NoDate == 0
DailyLimit == 100

User(id, username, email, password) ==
  [id |-> id, username |-> username, email |-> email, password |-> password,
   isActive |-> TRUE, isEmailVerified |-> FALSE, emailVerificationExpires |-> NoDate,
   loginAttempts |-> 0, lockUntil |-> NoDate,
   role |-> "user", questionsAsked |-> 0, dailyLimit |-> DailyLimit, lastResetDate |-> NoDate]

\* the object built by the demo login of the simple and demo servers
DemoLoginUser == User(<<"demo-user-001">>, U_demo, <<"demo@example.com">>, None)

\* the user seeded by the fixed server
demoUser == User(<<"demo_user">>, U_demo, None, P_demo123)

NewSession == [isLoggedIn |-> FALSE, userId |-> None, csrf |-> "none"]

Req(username, email, password, token) ==
  [username |-> username, email |-> email, password |-> password, token |-> token,
   message |-> None, bearer |-> None]

MsgReq(message, token) ==
  [username |-> None, email |-> None, password |-> None, token |-> token,
   message |-> message, bearer |-> None]

NoReq == Req(None, None, None, "none")

\* op: the route, s: the browser session, status: the HTTP status answered,
\* handled: the route's own handler function ran, body: the answer's payload,
\* after: for a GET, the route the same session requested just before,
\* lockUntil: for a login of the hardened server, the lockUntil its handler read,
\* lookup: for a chat message, the knowledge entries were searched,
\* stages: for a chat message of the hardened server, the middleware that ran,
\* audit: the records logAPICall wrote while the request was answered,
\* for an event of the realtime channel s is the socket and
\* conversation: data.conversationId, emits: the events each connected socket
\* was sent, error and code: the message and code of the error raised,
\* remaining: metadata.remainingQuestions of a chat answer
NoEmits == [k \in {} |-> <<>>]

Event(op, s, req, status, handled, body) ==
  [op |-> op, s |-> s, req |-> req, status |-> status, handled |-> handled, body |-> body,
   after |-> "", lockUntil |-> 0, lookup |-> FALSE, stages |-> <<>>, audit |-> <<>>,
   conversation |-> None, emits |-> NoEmits, error |-> "", code |-> "",
   remaining |-> 0, param |-> None]

\* the route the session's previous request went to, when that was the latest step
Previous(s) == IF last.s = s THEN last.op ELSE ""

NoEvent == Event("none", "s1", NoReq, 0, FALSE, None)

\* Map.set(id, user)
MapSet(m, u) == {x \in m : x.id # u.id} \cup {u}

\* Map.get(id): the set of values under the key (empty or a singleton)
MapGet(m, id) == {x \in m : x.id = id}

PublicUser(u) == <<u.id, u.username>>

-----------------------------------------------------------------------------
(* simple / fixed / demo servers: accounts *)

\* server-simple.js: `user_${Date.now()}_${random}`: the random suffix makes it fresh
NewUserId == <<"user_", nextId>>

\* demo server: `user-${Date.now()}`, ms being the millisecond clock's reading
DemoUserId(ms) == <<"user-", ms>>

\* LoginDemoOnly without users.set(user.id, user)
LoginDemoOnly_forgetsUser(s, username, password, token) ==
  LET req == Req(username, None, password, token) IN
  IF username = None \/ password = None THEN
    /\ last' = Event("login", s, req, 400, TRUE, None)
    /\ UNCHANGED <<users, session>>
  ELSE IF username = U_demo /\ password = P_demo123 THEN
    /\ session' = [session EXCEPT ![s].userId = DemoLoginUser.id,
                                  ![s].isLoggedIn = (variant = "simple") \/ @]
    /\ last' = Event("login", s, req, 200, TRUE, PublicUser(DemoLoginUser))
    /\ UNCHANGED users
  ELSE
    /\ last' = Event("login", s, req, 401, TRUE, None)
    /\ UNCHANGED <<users, session>>

\* POST /api/auth/login of the simple server (and, without isLoggedIn, of the demo server)
LoginDemoOnly(s, username, password, token) ==
  LET req == Req(username, None, password, token) IN
  IF username = None \/ password = None THEN
    /\ last' = Event("login", s, req, 400, TRUE, None)
    /\ UNCHANGED <<users, session>>
  ELSE IF username = U_demo /\ password = P_demo123 THEN
    /\ users' = MapSet(users, DemoLoginUser)
    /\ session' = [session EXCEPT ![s].userId = DemoLoginUser.id,
                                  ![s].isLoggedIn = (variant = "simple") \/ @]
    /\ last' = Event("login", s, req, 200, TRUE, PublicUser(DemoLoginUser))
  ELSE
    /\ last' = Event("login", s, req, 401, TRUE, None)
    /\ UNCHANGED <<users, session>>

\* POST /api/auth/login of the fixed server: looks the pair up in the store
LoginFixed(s, username, password, token) ==
  LET req == Req(username, None, password, token)
      found == {u \in users : u.username = username /\ u.password = password}
  IN
  IF found # {} THEN
    LET user == CHOOSE u \in found : TRUE IN
    /\ session' = [session EXCEPT ![s].isLoggedIn = TRUE, ![s].userId = user.id]
    /\ last' = Event("login", s, req, 200, TRUE, PublicUser(user))
    /\ UNCHANGED users
  ELSE
    /\ last' = Event("login", s, req, 401, TRUE, None)
    /\ UNCHANGED <<users, session>>

Login(s, username, password, token) ==
  /\ variant \in {"simple", "demo", "fixed"}
  /\ IF variant = "fixed" THEN LoginFixed(s, username, password, token)
                          ELSE LoginDemoOnly(s, username, password, token)
  /\ UNCHANGED <<variant, proc, pending, functionStore, sockets, now, nextId, chatHistory, authHits>>

\* POST /api/auth/register of the simple and fixed servers
RegisterChecked(s, username, email, password, token) ==
  LET req == Req(username, email, password, token) IN
  IF username = None \/ password = None THEN
    /\ last' = Event("register", s, req, 400, TRUE, None)
    /\ UNCHANGED <<users, session, nextId>>
  ELSE IF Len(username) < 3 THEN
    /\ last' = Event("register", s, req, 400, TRUE, None)
    /\ UNCHANGED <<users, session, nextId>>
  ELSE IF Len(password) < 6 THEN
    /\ last' = Event("register", s, req, 400, TRUE, None)
    /\ UNCHANGED <<users, session, nextId>>
  ELSE IF \E user \in users : user.username = username THEN
    /\ last' = Event("register", s, req, 409, TRUE, None)
    /\ UNCHANGED <<users, session, nextId>>
  ELSE
    LET newUser == User(NewUserId, username, email, password) IN
    /\ nextId < MaxUsers
    /\ users' = MapSet(users, newUser)
    /\ nextId' = nextId + 1
    /\ session' = [session EXCEPT ![s].isLoggedIn = TRUE, ![s].userId = newUser.id]
    /\ last' = Event("register", s, req, 201, TRUE, PublicUser(newUser))

\* POST /api/auth/register of the demo server; two requests in the same
\* millisecond get the same id
RegisterDemo(s, username, email, password, token) ==
  LET req == Req(username, email, password, token) IN
  IF username = None \/ email = None \/ password = None THEN
    /\ last' = Event("register", s, req, 400, TRUE, None)
    /\ UNCHANGED <<users, session, nextId>>
  ELSE
    \E ms \in {nextId, nextId + 1} :
      LET user == User(DemoUserId(ms), username, email, None) IN
      /\ ms < MaxUsers
      /\ users' = MapSet(users, user)
      /\ nextId' = ms
      /\ last' = Event("register", s, req, 201, TRUE, PublicUser(user))
      /\ UNCHANGED session

Register(s, username, email, password, token) ==
  /\ variant \in {"simple", "demo", "fixed"}
  /\ IF variant = "demo" THEN RegisterDemo(s, username, email, password, token)
                         ELSE RegisterChecked(s, username, email, password, token)
  /\ UNCHANGED <<variant, proc, pending, functionStore, sockets, now, chatHistory, authHits>>

\* GET /api/auth/me of the simple and fixed servers; the demo and hardened
\* servers have no such route: the catch-all of the one and the 404 handler
\* of the other answer
Me(s) ==
  /\ LET found == MapGet(users, session[s].userId)
         answer == IF variant \in {"demo", "hardened"}
                     THEN Event("me", s, NoReq, 404, FALSE, None)
                   ELSE IF session[s].isLoggedIn /\ session[s].userId # None /\ found # {}
                     THEN Event("me", s, NoReq, 200, TRUE, PublicUser(CHOOSE u \in found : TRUE))
                     ELSE Event("me", s, NoReq, 401, TRUE, None)
     IN last' = [answer EXCEPT !.after = Previous(s)]
  /\ UNCHANGED <<variant, proc, pending, functionStore, sockets, now, users, nextId, session, chatHistory, authHits>>

\* Logout on a server whose session.destroy leaves the session as it was
Logout_keepsSession(s, token) ==
  LET req == Req(None, None, None, token) IN
  /\ IF variant \in {"simple", "fixed"} THEN
       /\ UNCHANGED session
       /\ last' = [Event("logout", s, req, 200, TRUE, session[s].userId)
                    EXCEPT !.after = Previous(s)]
     ELSE IF variant = "hardened" THEN
       IF verify(session[s].csrf, token) THEN
         /\ UNCHANGED session
         /\ last' = [Event("logout", s, req, 200, TRUE, session[s].userId)
                      EXCEPT !.after = Previous(s)]
       ELSE
         /\ session' = [session EXCEPT ![s].csrf = csrfSecretAfter(@)]
         /\ last' = [Event("logout", s, req, csrfRejectStatus, FALSE, None)
                      EXCEPT !.after = Previous(s)]
     ELSE
       /\ UNCHANGED session
       /\ last' = [Event("logout", s, req, 404, FALSE, None) EXCEPT !.after = Previous(s)]
  /\ UNCHANGED <<variant, proc, pending, functionStore, sockets, now, users, nextId, chatHistory, authHits>>

\* POST /api/auth/logout: req.session.destroy, after which the browser's next
\* request starts a new session.  The answer's body records the user id the
\* destroyed session held.  The hardened server runs csrfProtection first; the
\* demo server has no such route and answers 404.
Logout(s, token) ==
  LET req == Req(None, None, None, token) IN
  /\ IF variant \in {"simple", "fixed"} THEN
       /\ session' = [session EXCEPT ![s] = NewSession]
       /\ last' = [Event("logout", s, req, 200, TRUE, session[s].userId)
                    EXCEPT !.after = Previous(s)]
     ELSE IF variant = "hardened" THEN
       IF verify(session[s].csrf, token) THEN
         /\ session' = [session EXCEPT ![s] = NewSession]
         /\ last' = [Event("logout", s, req, 200, TRUE, session[s].userId)
                      EXCEPT !.after = Previous(s)]
       ELSE
         /\ session' = [session EXCEPT ![s].csrf = csrfSecretAfter(@)]
         /\ last' = [Event("logout", s, req, csrfRejectStatus, FALSE, None)
                      EXCEPT !.after = Previous(s)]
     ELSE
       /\ UNCHANGED session
       /\ last' = [Event("logout", s, req, 404, FALSE, None) EXCEPT !.after = Previous(s)]
  /\ UNCHANGED <<variant, proc, pending, functionStore, sockets, now, users, nextId, chatHistory, authHits>>

-----------------------------------------------------------------------------
(* simple / fixed / demo servers: chat and history *)

\* excelFunctions of the demo server (the syntax strings equal those of the service's table)
demoFunctions ==
  <<
    [name |-> <<"S","U","M">>,
     syntax |-> excelFunctions[1].syntax,
     description |-> <<"u6570","u5024","u306E","u5408","u8A08","u3092","u8A08","u7B97","u3057","u307E","u3059">>],
    [name |-> <<"V","L","O","O","K","U","P">>,
     syntax |-> excelFunctions[7].syntax,
     description |-> <<"u5782","u76F4","u65B9","u5411","u306E","u691C","u7D22","u3092","u884C","u3044","u3001","u5BFE","u5FDC","u3059","u308B","u5024","u3092","u8FD4","u3057","u307E","u3059">>],
    [name |-> <<"I","F">>,
     syntax |-> excelFunctions[11].syntax,
     description |-> <<"u6761","u4EF6","u306B","u5FDC","u3058","u3066","u7570","u306A","u308B","u5024","u3092","u8FD4","u3057","u307E","u3059">>]
  >>

K_kansu == <<"u95A2","u6570">>
K_excel == <<"e","x","c","e","l">>

T_header ==
  <<"E","x","c","e","l","u5C02","u9580","u30C1","u30E3","u30C3","u30C8","u30DC","u30C3","u30C8",
    "u3067","u3059","u3002","\n","\n">>
T_found ==
  <<"u95A2","u9023","u3059","u308B","u60C5","u5831","u3092","u898B","u3064","u3051","u307E",
    "u3057","u305F","uFF1A","\n","\n">>
T_notFound ==
  <<"u7533","u3057","u8A33","u3054","u3056","u3044","u307E","u305B","u3093","u304C","u3001",
    "u304A","u63A2","u3057","u306E","u60C5","u5831","u304C","u898B","u3064","u304B","u308A",
    "u307E","u305B","u3093","u3067","u3057","u305F","u3002","\n","E","x","c","e","l","u95A2",
    "u9023","u306E","u30AD","u30FC","u30EF","u30FC","u30C9","u3092","u4F7F","u3063","u3066",
    "u3082","u3046","u4E00","u5EA6","u304A","u8A66","u3057","u304F","u3060","u3055","u3044",
    "u3002","\n","\n","u4F8B","uFF1A","\n","u2022"," ","'","S","U","M","u95A2","u6570","u306E",
    "u4F7F","u3044","u65B9","'","\n","u2022"," ","'","V","L","O","O","K","U","P","u3067",
    "u691C","u7D22","u3057","u305F","u3044","'","\n","u2022"," ","'","I","F","u95A2","u6570",
    "u306E","u6761","u4EF6","u5206","u5C90","'","\n">>
T_entryOpen ==
  <<"u1F4CA"," ","*","*">>
T_entryName ==
  <<"u95A2","u6570","*","*","\n">>
T_syntaxOpen ==
  <<"u69CB","u6587",":"," ","u0060">>
T_syntaxClose ==
  <<"u0060","\n","\n">>

\* the demo server's filter over its table
relatedFunctions(message) ==
  LET lowerMessage == toLowerCase(message)
      hit(func) == \/ includes(lowerMessage, toLowerCase(func.name))
                   \/ includes(toLowerCase(func.description), lowerMessage)
                   \/ includes(lowerMessage, K_kansu)
                   \/ includes(lowerMessage, K_excel)
  IN SelectSeq(demoFunctions, hit)

RECURSIVE entriesText(_)
entriesText(funcs) ==
  IF funcs = <<>> THEN <<>>
  ELSE T_entryOpen \o Head(funcs).name \o T_entryName
       \o Head(funcs).description \o <<"\n">>
       \o T_syntaxOpen \o Head(funcs).syntax \o T_syntaxClose
       \o entriesText(Tail(funcs))

\* the reply text the demo server builds
demoResponse(message) ==
  LET funcs == relatedFunctions(message) IN
  IF Len(funcs) > 0 THEN T_header \o T_found \o entriesText(funcs)
                    ELSE T_header \o T_notFound

Guest == <<"guest">>
HistoryMax == 100

\* req.session.userId || 'guest'
historyKey(s) == IF session[s].userId # None THEN session[s].userId ELSE Guest

\* chatHistory.get(userId) || [] with a default that is not empty
historyOf_defaultEntry(key) ==
  IF key \in DOMAIN chatHistory THEN chatHistory[key] ELSE << <<"bot", None>> >>

\* chatHistory.get(userId) || []
historyOf(key) == IF key \in DOMAIN chatHistory THEN chatHistory[key] ELSE <<>>

\* userHistory.splice(0, userHistory.length - 100)
trimHistory(h) == IF Len(h) > HistoryMax THEN SubSeq(h, Len(h) - HistoryMax + 1, Len(h)) ELSE h

\* POST /api/chat/message
ChatMessage(s, message, token) ==
  LET req == MsgReq(message, token) IN
  /\ variant \in {"simple", "fixed", "demo"}
  /\ IF message = None THEN
       /\ last' = Event("chat", s, req, 400, TRUE, None)
       /\ UNCHANGED chatHistory
     ELSE IF variant = "demo" THEN
       /\ last' = [Event("chat", s, req, 200, TRUE, demoResponse(message)) EXCEPT !.lookup = TRUE]
       /\ UNCHANGED chatHistory
     ELSE IF "generateResponse" \notin excelAIExports THEN
       \* ExcelAI.generateResponse is not a function: the TypeError is caught
       /\ last' = Event("chat", s, req, 500, TRUE, None)
       /\ UNCHANGED chatHistory
     ELSE
       \* aiResponse.response: the object generateResponse returns has no such field
       LET aiResponse == generateResponse(message)
           key == historyKey(s)
           userHistory == historyOf(key) \o << <<"user", message>>, <<"bot", None>> >>
       IN
       /\ chatHistory' = [k \in DOMAIN chatHistory \cup {key} |->
                            IF k = key THEN trimHistory(userHistory) ELSE chatHistory[k]]
       /\ last' = [Event("chat", s, req, 200, TRUE, None) EXCEPT !.lookup = TRUE]
  /\ UNCHANGED <<variant, proc, pending, functionStore, sockets, now, users, nextId, session, authHits>>

\* GET /api/chat/history: the simple server answers {history}, the fixed one
\* {messages: history.slice(-20)}; the demo server has no such route and its
\* catch-all answers 404
HistorySlice == 20

\* history.slice(-n)
sliceLast(h, n) == IF Len(h) > n THEN SubSeq(h, Len(h) - n + 1, Len(h)) ELSE h

GetHistory(s) ==
  LET history == historyOf(historyKey(s))
      answer == IF variant = "demo" THEN Event("getHistory", s, NoReq, 404, FALSE, None)
                ELSE IF variant = "simple" THEN Event("getHistory", s, NoReq, 200, TRUE, history)
                ELSE Event("getHistory", s, NoReq, 200, TRUE, sliceLast(history, HistorySlice))
  IN
  /\ variant \in {"simple", "fixed", "demo"}
  /\ last' = [answer EXCEPT !.after = Previous(s)]
  /\ UNCHANGED <<variant, proc, pending, functionStore, sockets, now, users, nextId, session, chatHistory, authHits>>

-----------------------------------------------------------------------------
(* hardened server: validators (middleware/validation.js) *)

\* express-validator isLength({min, max})
isLength(str, min, max) == Len(str) >= min /\ Len(str) <= max

Letters == Range(UpperChars) \cup Range(LowerChars)
Digits == Range(DigitChars)
WordChars == Letters \cup Digits \cup {"_"}
SpecialChars == {"@", "$", "!", "%", "*", "?", "&"}

\* matches(/^[a-zA-Z0-9_-]+$/)
usernamePattern(str) ==
  /\ Len(str) >= 1
  /\ \A i \in 1..Len(str) : str[i] \in Letters \cup Digits \cup {"_", "-"}

\* matches(/^(?=.*[a-z])(?=.*[A-Z])(?=.*\d)(?=.*[@$!%*?&])[A-Za-z\d@$!%*?&]/):
\* four lookaheads and one leading character of the class
passwordPattern(str) ==
  /\ \E i \in 1..Len(str) : str[i] \in Range(LowerChars)
  /\ \E i \in 1..Len(str) : str[i] \in Range(UpperChars)
  /\ \E i \in 1..Len(str) : str[i] \in Digits
  /\ \E i \in 1..Len(str) : str[i] \in SpecialChars
  /\ Len(str) >= 1
  /\ str[1] \in Letters \cup Digits \cup SpecialChars

\* isEmail(): one "@", a non-empty local part, a dotted domain whose
\* labels are non-empty (the library's check, reduced to the addresses
\* the model draws)
isEmail(str) ==
  \E at \in 1..Len(str) :
    /\ str[at] = "@"
    /\ \A j \in 1..Len(str) : str[j] = "@" => j = at
    /\ at > 1
    /\ \A j \in 1..Len(str) : j # at => str[j] \in WordChars \cup {".", "-"}
    /\ \E dot \in (at + 2)..(Len(str) - 2) : str[dot] = "."
    /\ str[Len(str)] # "." /\ str[at + 1] # "."

\* normalizeEmail(): lower-cases the address
normalizeEmail(str) == toLowerCase(str)

\* the fields userRegistrationValidation rejects
userRegistrationValidation(username, email, password) ==
  {f \in {"username", "email", "password"} :
     \/ f = "username" /\ ~(isLength(username, 3, 30) /\ usernamePattern(username))
     \/ f = "email" /\ ~isEmail(email)
     \/ f = "password" /\ ~(isLength(password, 8, 128) /\ passwordPattern(password))}

\* the fields loginValidation rejects
loginValidation(username, password) ==
  {f \in {"username", "password"} :
     \/ f = "username" /\ ~isLength(username, 1, 100)
     \/ f = "password" /\ ~isLength(password, 1, 128)}

\* handleValidationErrors: the status it answers when the result is not empty.
\* It calls logger.warn first, which throws when the binding has no warn;
\* the error handler of server.js calls logger.error, and Express answers 500.
handleValidationErrors == IF loggerCall("warn") THEN 400 ELSE 500

-----------------------------------------------------------------------------
(* hardened server: models/User.js *)

LockTime == 8
MaxLoginAttempts == 5

\* isLocked of a record that keeps a lock once it has one
isLocked_ignoresTime(user) == user.lockUntil # NoDate

\* virtual isLocked
isLocked(user) == user.lockUntil # NoDate /\ user.lockUntil > now

\* comparePassword: the stored hash matches exactly the password it was made from
comparePassword(user, candidatePassword) == user.password = candidatePassword

incLoginAttempts_sixthLocks(user) ==
  IF user.lockUntil # NoDate /\ user.lockUntil < now
    THEN [user EXCEPT !.lockUntil = NoDate, !.loginAttempts = 1]
    ELSE IF user.loginAttempts + 1 > MaxLoginAttempts /\ ~isLocked(user)
      THEN [user EXCEPT !.loginAttempts = @ + 1, !.lockUntil = now + LockTime]
      ELSE [user EXCEPT !.loginAttempts = @ + 1]

\* incLoginAttempts: the user document after updateOne
incLoginAttempts(user) ==
  IF user.lockUntil # NoDate /\ user.lockUntil < now
    THEN [user EXCEPT !.lockUntil = NoDate, !.loginAttempts = 1]
    ELSE IF user.loginAttempts + 1 >= MaxLoginAttempts /\ ~isLocked(user)
      THEN [user EXCEPT !.loginAttempts = @ + 1, !.lockUntil = now + LockTime]
      ELSE [user EXCEPT !.loginAttempts = @ + 1]

resetLoginAttempts_keepsCount(user) == [user EXCEPT !.lockUntil = NoDate]

\* resetLoginAttempts: the user document after updateOne
resetLoginAttempts(user) == [user EXCEPT !.loginAttempts = 0, !.lockUntil = NoDate]

-----------------------------------------------------------------------------
(* hardened server: routes/auth.js behind csrfProtection *)

VerificationTime == 96

\* the email pattern of userSchema: the address ends in a label of two or three
\* word characters
schemaEmail(email) ==
  /\ isEmail(email)
  /\ \E dot \in 1..Len(email) :
       /\ email[dot] = "."
       /\ Len(email) - dot \in {2, 3}
       /\ \A j \in (dot + 1)..Len(email) : email[j] \in WordChars

\* new User(...)._id
ObjectId == <<"oid", nextId>>

\* csrfProtection and authLimiter, which every POST to /api/auth passes first:
\* the status they answer, or 0 when they call next()
gateStatus(s, key, token) ==
  IF ~verify(session[s].csrf, token) THEN csrfRejectStatus
  ELSE IF hitsOf(key) + 1 > AuthMax THEN 429
  ELSE 0

\* the limiter's store after the request: a request csrfProtection stopped never
\* reached the limiter
gateHits(s, key, token) ==
  IF verify(session[s].csrf, token) THEN countHit(key) ELSE authHits

\* POST /api/auth/register
RegisterHardened(s, username, email, password, token) ==
  LET req == Req(username, email, password, token)
      gate == gateStatus(s, authKey(username, email), token)
      mail == normalizeEmail(email)
      existingUser == {u \in users : u.email = mail \/ u.username = username}
      user == [User(ObjectId, username, mail, password)
                 EXCEPT !.emailVerificationExpires = now + VerificationTime,
                        !.lastResetDate = now]
  IN
  /\ variant = "hardened"
  /\ session' = [session EXCEPT ![s].csrf = csrfSecretAfter(@)]
  /\ authHits' = gateHits(s, authKey(username, email), token)
  /\ IF gate # 0 THEN
       /\ last' = Event("register", s, req, gate, FALSE, None)
       /\ UNCHANGED <<users, nextId>>
     ELSE IF userRegistrationValidation(username, email, password) # {} THEN
       /\ last' = Event("register", s, req, handleValidationErrors, FALSE, None)
       /\ UNCHANGED <<users, nextId>>
     ELSE IF existingUser # {} THEN
       /\ last' = Event("register", s, req, 409, TRUE, None)
       /\ UNCHANGED <<users, nextId>>
     ELSE IF ~schemaEmail(mail) THEN
       \* user.save() rejects the document; the handler's catch answers
       /\ last' = Event("register", s, req, 500, TRUE, None)
       /\ UNCHANGED <<users, nextId>>
     ELSE
       /\ nextId < MaxUsers
       /\ users' = users \cup {user}
       /\ nextId' = nextId + 1
       /\ last' = Event("register", s, req, 201, TRUE, PublicUser(user))
  /\ UNCHANGED <<variant, proc, pending, functionStore, sockets, now, chatHistory>>

\* GET /api/auth/verify-email/:token with a findOne that asks for the token
\* alone, whatever its expiry date
VerifyEmail_ignoresExpiry(s, id) ==
  LET found == {u \in users : u.id = id /\ u.emailVerificationExpires # NoDate}
  IN
  /\ variant = "hardened"
  /\ IF found = {} THEN
       /\ last' = [Event("verifyEmail", s, NoReq, 400, TRUE, None) EXCEPT !.param = id]
       /\ UNCHANGED users
     ELSE
       LET user == CHOOSE u \in found : TRUE IN
       /\ users' = MapSet(users, [user EXCEPT !.isEmailVerified = TRUE,
                                              !.emailVerificationExpires = NoDate])
       /\ last' = [Event("verifyEmail", s, NoReq, 200, TRUE, None) EXCEPT !.param = id]
  /\ UNCHANGED <<variant, proc, pending, functionStore, sockets, now, nextId, session, chatHistory, authHits>>

\* GET /api/auth/verify-email/:token, the token being the one mailed to user id
\* (None: a token that was mailed to nobody)
VerifyEmail(s, id) ==
  LET found == {u \in users : u.id = id /\ u.emailVerificationExpires # NoDate
                              /\ u.emailVerificationExpires > now}
  IN
  /\ variant = "hardened"
  /\ IF found = {} THEN
       /\ last' = [Event("verifyEmail", s, NoReq, 400, TRUE, None) EXCEPT !.param = id]
       /\ UNCHANGED users
     ELSE
       LET user == CHOOSE u \in found : TRUE IN
       /\ users' = MapSet(users, [user EXCEPT !.isEmailVerified = TRUE,
                                              !.emailVerificationExpires = NoDate])
       /\ last' = [Event("verifyEmail", s, NoReq, 200, TRUE, None) EXCEPT !.param = id]
  /\ UNCHANGED <<variant, proc, pending, functionStore, sockets, now, nextId, session, chatHistory, authHits>>

\* POST /api/auth/login
LoginHardened(s, username, password, token) ==
  LET req == Req(username, None, password, token)
      gate == gateStatus(s, authKey(username, None), token)
      found == {u \in users : u.username = username \/ u.email = username}
      user == CHOOSE u \in found : TRUE
  IN
  /\ variant = "hardened"
  /\ authHits' = gateHits(s, authKey(username, None), token)
  /\ IF gate # 0 THEN
       /\ last' = Event("login", s, req, gate, FALSE, None)
       /\ session' = [session EXCEPT ![s].csrf = csrfSecretAfter(@)]
       /\ UNCHANGED users
     ELSE IF loginValidation(username, password) # {} THEN
       /\ last' = Event("login", s, req, handleValidationErrors, FALSE, None)
       /\ UNCHANGED <<users, session>>
     ELSE IF found = {} THEN
       /\ last' = Event("login", s, req, 401, TRUE, None)
       /\ UNCHANGED <<users, session>>
     ELSE IF isLocked(user) THEN
       /\ last' = [Event("login", s, req, 423, TRUE, None) EXCEPT !.lockUntil = user.lockUntil]
       /\ UNCHANGED <<users, session>>
     ELSE IF ~comparePassword(user, password) THEN
       /\ users' = MapSet(users, incLoginAttempts(user))
       /\ last' = [Event("login", s, req, 401, TRUE, None) EXCEPT !.lockUntil = user.lockUntil]
       /\ UNCHANGED session
     ELSE IF ~user.isEmailVerified THEN
       /\ last' = [Event("login", s, req, 403, TRUE, None) EXCEPT !.lockUntil = user.lockUntil]
       /\ UNCHANGED <<users, session>>
     ELSE
       /\ users' = MapSet(users, resetLoginAttempts(user))
       /\ session' = [session EXCEPT ![s].userId = user.id]
       /\ last' = [Event("login", s, req, 200, TRUE, PublicUser(user))
                    EXCEPT !.lockUntil = user.lockUntil]
  /\ UNCHANGED <<variant, proc, pending, functionStore, sockets, now, nextId, chatHistory>>

-----------------------------------------------------------------------------
(* hardened server: register and login handlers that run interleaved *)

\* the handlers in flight: each holds the request and doc, the document it
\* built (register) or read (login) before its next await
Handlers == {"h1", "h2"}

PendingIds == {r.id : r \in pending}

Handler(h, op, s, req, doc) == [id |-> h, op |-> op, s |-> s, req |-> req, doc |-> doc]

\* POST /api/auth/register up to `await user.save()`: a request answered
\* before that is answered in this step
RegisterFind(h, s, username, email, password, token) ==
  LET mail == normalizeEmail(email)
      existingUser == {u \in users : u.email = mail \/ u.username = username}
      user == [User(ObjectId, username, mail, password)
                 EXCEPT !.emailVerificationExpires = now + VerificationTime,
                        !.lastResetDate = now]
  IN
  IF /\ gateStatus(s, authKey(username, email), token) = 0
     /\ userRegistrationValidation(username, email, password) = {}
     /\ existingUser = {}
  THEN
    /\ variant = "hardened"
    /\ h \notin PendingIds
    /\ nextId < MaxUsers
    /\ nextId' = nextId + 1
    /\ session' = [session EXCEPT ![s].csrf = csrfSecretAfter(@)]
    /\ authHits' = gateHits(s, authKey(username, email), token)
    /\ pending' = pending \cup {Handler(h, "register", s, Req(username, email, password, token), user)}
    /\ last' = Event("registerFind", s, Req(username, email, password, token), 0, TRUE, None)
    /\ UNCHANGED <<variant, proc, functionStore, sockets, now, users, chatHistory>>
  ELSE
    h \notin PendingIds /\ RegisterHardened(s, username, email, password, token)

\* the rest of the register handler: user.save() validates the document and
\* inserts it under the unique indexes of username and email; an error of the
\* insert (E11000) is caught by the handler's catch, which answers 500
RegisterSave(h) ==
  \E r \in {x \in pending : x.id = h /\ x.op = "register"} :
    LET duplicateKey == \E u \in users : u.username = r.doc.username \/ u.email = r.doc.email
        saved == schemaEmail(r.doc.email) /\ ~duplicateKey
    IN
    /\ variant = "hardened"
    /\ pending' = pending \ {r}
    /\ users' = IF saved THEN users \cup {r.doc} ELSE users
    /\ last' = Event("register", r.s, r.req, IF saved THEN 201 ELSE 500, TRUE,
                     IF saved THEN PublicUser(r.doc) ELSE None)
    /\ UNCHANGED <<variant, proc, functionStore, sockets, now, nextId, session, chatHistory,
                   authHits>>

\* the update document incLoginAttempts builds from the document it was
\* called on: inc is the $inc of loginAttempts, setAttempts its $set (0: none),
\* setLock the $set of lockUntil (NoDate: none)
incLoginAttemptsUpdate(user) ==
  IF user.lockUntil # NoDate /\ user.lockUntil < now
    THEN [unsetLock |-> TRUE, setAttempts |-> 1, inc |-> 0, setLock |-> NoDate]
    ELSE [unsetLock |-> FALSE, setAttempts |-> 0, inc |-> 1,
          setLock |-> IF user.loginAttempts + 1 >= MaxLoginAttempts /\ ~isLocked(user)
                        THEN now + LockTime ELSE NoDate]

\* updateOne: the stored document after the update
updateOne(stored, update) ==
  [stored EXCEPT
     !.loginAttempts = IF update.setAttempts # 0 THEN update.setAttempts ELSE @ + update.inc,
     !.lockUntil = IF update.unsetLock THEN NoDate
                   ELSE IF update.setLock # NoDate THEN update.setLock ELSE @]

\* POST /api/auth/login up to `await user.comparePassword(password)`: a
\* request answered before that is answered in this step
LoginFind(h, s, username, password, token) ==
  LET found == {u \in users : u.username = username \/ u.email = username} IN
  IF /\ gateStatus(s, authKey(username, None), token) = 0
     /\ loginValidation(username, password) = {}
     /\ found # {}
     /\ \A u \in found : ~isLocked(u)
  THEN
    /\ variant = "hardened"
    /\ h \notin PendingIds
    /\ authHits' = gateHits(s, authKey(username, None), token)
    /\ pending' = pending \cup {Handler(h, "login", s, Req(username, None, password, token),
                                        CHOOSE u \in found : TRUE)}
    /\ last' = Event("loginFind", s, Req(username, None, password, token), 0, TRUE, None)
    /\ UNCHANGED <<variant, proc, functionStore, sockets, now, users, nextId, session,
                   chatHistory>>
  ELSE
    h \notin PendingIds /\ LoginHardened(s, username, password, token)

\* the rest of the login handler, working on the document it read
LoginFinish(h) ==
  \E r \in {x \in pending : x.id = h /\ x.op = "login"} :
    LET user == r.doc
        stored == CHOOSE u \in users : u.id = user.id
    IN
    /\ variant = "hardened"
    /\ pending' = pending \ {r}
    /\ IF ~comparePassword(user, r.req.password) THEN
         /\ users' = MapSet(users, updateOne(stored, incLoginAttemptsUpdate(user)))
         /\ last' = [Event("login", r.s, r.req, 401, TRUE, None) EXCEPT !.lockUntil = user.lockUntil]
         /\ UNCHANGED session
       ELSE IF ~user.isEmailVerified THEN
         /\ last' = [Event("login", r.s, r.req, 403, TRUE, None) EXCEPT !.lockUntil = user.lockUntil]
         /\ UNCHANGED <<users, session>>
       ELSE
         /\ users' = MapSet(users, resetLoginAttempts(stored))
         /\ session' = [session EXCEPT ![r.s].userId = user.id]
         /\ last' = [Event("login", r.s, r.req, 200, TRUE, PublicUser(user))
                      EXCEPT !.lockUntil = user.lockUntil]
    /\ UNCHANGED <<variant, proc, functionStore, sockets, now, nextId, chatHistory, authHits>>

-----------------------------------------------------------------------------
(* hardened server: routes/chat.js, the knowledge models and their seed data *)

\* the keyword list of chatMessageValidation's custom validator
validatorKeywords ==
  {<<"e","x","c","e","l">>, <<"s","p","r","e","a","d","s","h","e","e","t">>,
   <<"f","o","r","m","u","l","a">>, <<"f","u","n","c","t","i","o","n">>, <<"c","e","l","l">>,
   <<"r","o","w">>, <<"c","o","l","u","m","n">>, <<"p","i","v","o","t">>,
   <<"c","h","a","r","t">>, <<"m","a","c","r","o">>, <<"v","b","a">>,
   <<"w","o","r","k","s","h","e","e","t">>, <<"w","o","r","k","b","o","o","k">>, <<"s","u","m">>,
   <<"v","l","o","o","k","u","p">>, <<"h","l","o","o","k","u","p">>, <<"i","f">>,
   <<"c","o","u","n","t","i","f">>, <<"s","u","m","i","f">>, <<"i","n","d","e","x">>,
   <<"m","a","t","c","h">>}

\* excelKeywords of the message handler
excelKeywords ==
  {<<"e","x","c","e","l">>, <<"s","p","r","e","a","d","s","h","e","e","t">>,
   <<"f","o","r","m","u","l","a">>, <<"f","u","n","c","t","i","o","n">>, <<"c","e","l","l">>,
   <<"r","o","w">>, <<"c","o","l","u","m","n">>, <<"p","i","v","o","t">>,
   <<"c","h","a","r","t">>, <<"m","a","c","r","o">>, <<"v","b","a">>,
   <<"w","o","r","k","s","h","e","e","t">>, <<"w","o","r","k","b","o","o","k">>, <<"s","u","m">>,
   <<"v","l","o","o","k","u","p">>, <<"h","l","o","o","k","u","p">>, <<"i","f">>,
   <<"c","o","u","n","t","i","f">>, <<"s","u","m","i","f">>, <<"i","n","d","e","x">>,
   <<"m","a","t","c","h">>, <<"u95A2","u6570">>, <<"u30A8","u30AF","u30BB","u30EB">>,
   <<"u6570","u5F0F">>, <<"u30D4","u30DC","u30C3","u30C8">>, <<"u30B0","u30E9","u30D5">>,
   <<"u30DE","u30AF","u30ED">>}

T_nonExcel ==
  <<"N","o","n","-","E","x","c","e","l"," ","q","u","e","s","t","i","o","n">>

\* the documents seedExcelFunctions inserts
seededFunctions ==
  <<[name |-> <<"S","U","M">>,
    syntax |-> <<"S","U","M","(","n","u","m","b","e","r","1",","," ","[","n","u","m","b","e","r","2","]",","," ",".",".",".",")">>,
    description |-> <<"u6570","u5024","u306E","u5408","u8A08","u3092","u8A08","u7B97","u3057","u307E","u3059">>,
    tags |-> {<<"u57FA","u672C">>, <<"u6570","u5B66">>, <<"u96C6","u8A08">>}],
   [name |-> <<"V","L","O","O","K","U","P">>,
    syntax |-> <<"V","L","O","O","K","U","P","(","l","o","o","k","u","p","_","v","a","l","u","e",","," ","t","a","b","l","e","_","a","r","r","a","y",","," ","c","o","l","_","i","n","d","e","x","_","n","u","m",","," ","[","r","a","n","g","e","_","l","o","o","k","u","p","]",")">>,
    description |-> <<"u5782","u76F4","u65B9","u5411","u306E","u691C","u7D22","u3092","u884C","u3044","u3001","u5BFE","u5FDC","u3059","u308B","u5024","u3092","u8FD4","u3057","u307E","u3059">>,
    tags |-> {<<"u691C","u7D22">>, <<"u53C2","u7167">>, <<"u4E2D","u7D1A">>}]>>

\* the documents seedExcelFeatures and seedBestPractices insert (name or title, description)
seededFeatures ==
  <<[name |-> <<"u30D4","u30DC","u30C3","u30C8","u30C6","u30FC","u30D6","u30EB">>,
    description |-> <<"u30C7","u30FC","u30BF","u306E","u96C6","u8A08","u30FB","u5206","u6790","u3092","u884C","u3046","u5F37","u529B","u306A","u6A5F","u80FD","u3067","u3059">>,
    tags |-> {}]>>

seededPractices ==
  <<[name |-> <<"u30BB","u30EB","u53C2","u7167","u306E","u9069","u5207","u306A","u4F7F","u3044","u65B9">>,
    description |-> <<"u76F8","u5BFE","u53C2","u7167","u3068","u7D76","u5BFE","u53C2","u7167","u3092","u6B63","u3057","u304F","u4F7F","u3044","u5206","u3051","u308B","u3053","u3068","u3067","u3001","u52B9","u7387","u7684","u306A","u6570","u5F0F","u3092","u4F5C","u6210","u3067","u304D","u307E","u3059">>,
    tags |-> {}]>>

R_dev ==
  <<"u7533","u3057","u8A33","u3054","u3056","u3044","u307E","u305B","u3093","u304C","u3001",
    "u73FE","u5728","A","I","u6A5F","u80FD","u306F","u958B","u767A","u4E2D","u3067","u3059",
    "u3002","\n","\n">>

R_found ==
  <<"u95A2","u9023","u3059","u308B","u60C5","u5831","u3092","u898B","u3064","u3051","u307E",
    "u3057","u305F","uFF1A","\n","\n">>

R_functions ==
  <<"u1F4CA"," ","*","*","u95A2","u9023","u3059","u308B","E","x","c","e","l","u95A2","u6570",
    ":","*","*","\n">>

R_features ==
  <<"u1F527"," ","*","*","u95A2","u9023","u3059","u308B","E","x","c","e","l","u6A5F","u80FD",
    ":","*","*","\n">>

R_practices ==
  <<"u1F4A1"," ","*","*","u30D9","u30B9","u30C8","u30D7","u30E9","u30AF","u30C6","u30A3",
    "u30B9",":","*","*","\n">>

R_bullet ==
  <<"u2022"," ","*","*">>

R_colon ==
  <<"*","*",":"," ">>

R_syntaxOpen ==
  <<" "," ","u69CB","u6587",":"," ","u0060">>

R_syntaxClose ==
  <<"u0060","\n","\n">>

R_none ==
  <<"u7533","u3057","u8A33","u3054","u3056","u3044","u307E","u305B","u3093","u304C","u3001",
    "u304A","u63A2","u3057","u306E","u60C5","u5831","u304C","u898B","u3064","u304B","u308A",
    "u307E","u305B","u3093","u3067","u3057","u305F","u3002","\n","u3088","u308A","u5177",
    "u4F53","u7684","u306A","E","x","c","e","l","u95A2","u9023","u306E","u30AD","u30FC","u30EF",
    "u30FC","u30C9","u3092","u4F7F","u3063","u3066","u3082","u3046","u4E00","u5EA6","u304A",
    "u8A66","u3057","u304F","u3060","u3055","u3044","u3002","\n","\n","u4F8B","uFF1A","\n",
    "u2022"," ","u300C","V","L","O","O","K","U","P","u95A2","u6570","u306E","u4F7F","u3044",
    "u65B9","u300D","\n","u2022"," ","u300C","u30D4","u30DC","u30C3","u30C8","u30C6","u30FC",
    "u30D6","u30EB","u306E","u4F5C","u6210","u65B9","u6CD5","u300D","\n","u2022"," ","u300C",
    "u6761","u4EF6","u4ED8","u304D","u66F8","u5F0F","u306E","u8A2D","u5B9A","u300D">>

PremiumFactor == 5
DayTime == 96
ChatMax == 10

\* Date.prototype.toDateString: the calendar day of a time
toDateString(t) == t \div DayTime

\* the role-scaled daily limit of canAskQuestion
roleLimit(user) ==
  IF user.role = "premium" THEN user.dailyLimit * PremiumFactor ELSE user.dailyLimit

\* canAskQuestion
canAskQuestion(user) == user.questionsAsked < roleLimit(user)

\* incrementUsage that never begins a new day
incrementUsage_withoutReset(user) == [user EXCEPT !.questionsAsked = @ + 1]

\* incrementUsage: the document after save()
incrementUsage(user) ==
  LET today == IF toDateString(now) # toDateString(user.lastResetDate)
                 THEN [user EXCEPT !.questionsAsked = 0, !.lastResetDate = now]
                 ELSE user
  IN [today EXCEPT !.questionsAsked = @ + 1]

\* the text index splits a string into terms at blanks and punctuation
Delimiters == {" ", ",", ".", "?", "u3001", "u3002", "u30FB"}

RECURSIVE terms(_)
terms(text) ==
  LET cuts == {i \in 1..Len(text) : text[i] \in Delimiters} IN
  IF text = <<>> THEN {}
  ELSE IF cuts = {} THEN {text}
  ELSE LET i == CHOOSE c \in cuts : \A d \in cuts : c <= d IN
       (IF i > 1 THEN {SubSeq(text, 1, i - 1)} ELSE {})
         \cup terms(SubSeq(text, i + 1, Len(text)))

\* find({$text: {$search: query}}): the documents one of whose indexed fields
\* holds a term of the query, case-insensitively (none of the seeded documents
\* holds an English word that stemming or the stop-word list would change)
textSearch(docs, query) ==
  LET wanted == terms(toLowerCase(query))
      indexed(doc) == terms(toLowerCase(doc.name)) \cup terms(toLowerCase(doc.description))
                        \cup UNION {terms(toLowerCase(tag)) : tag \in doc.tags}
      hit(doc) == wanted \cap indexed(doc) # {}
  IN SelectSeq(docs, hit)

searchExcelKnowledge(query) ==
  [functions |-> textSearch(seededFunctions, query),
   features |-> textSearch(seededFeatures, query),
   practices |-> textSearch(seededPractices, query),
   faqs |-> <<>>]

totalResults(knowledgeBase) ==
  Len(knowledgeBase.functions) + Len(knowledgeBase.features)
    + Len(knowledgeBase.practices) + Len(knowledgeBase.faqs)

RECURSIVE functionLines(_)
functionLines(funcs) ==
  IF funcs = <<>> THEN <<>>
  ELSE R_bullet \o Head(funcs).name \o R_colon \o Head(funcs).description \o <<"\n">>
       \o R_syntaxOpen \o Head(funcs).syntax \o R_syntaxClose
       \o functionLines(Tail(funcs))

RECURSIVE entryLines(_)
entryLines(docs) ==
  IF docs = <<>> THEN <<>>
  ELSE R_bullet \o Head(docs).name \o R_colon \o Head(docs).description \o <<"\n", "\n">>
       \o entryLines(Tail(docs))

\* generateAIResponse: the text of the reply
generateAIResponse(knowledgeBase) ==
  IF totalResults(knowledgeBase) > 0 THEN
    R_dev \o R_found
      \o (IF Len(knowledgeBase.functions) > 0
            THEN R_functions \o functionLines(knowledgeBase.functions) ELSE <<>>)
      \o (IF Len(knowledgeBase.features) > 0
            THEN R_features \o entryLines(knowledgeBase.features) ELSE <<>>)
      \o (IF Len(knowledgeBase.practices) > 0
            THEN R_practices \o entryLines(knowledgeBase.practices) ELSE <<>>)
  ELSE R_dev \o R_none

\* message.toLowerCase() includes one of the keywords
hasKeyword(keywords, message) == \E keyword \in keywords : includes(toLowerCase(message), keyword)

\* the fields chatMessageValidation rejects: the custom validator calls
\* logger.warn for a message without keyword, and a validator that throws
\* counts as a failed one
chatMessageValidation(message) ==
  {f \in {"message"} :
     \/ ~isLength(message, 1, 5000)
     \/ ~hasKeyword(validatorKeywords, message) /\ ~loggerCall("warn")}

\* authMiddleware: the status it answers, or 0 when it calls next(); bearer is
\* the id the presented access token was signed for, None without a token
authMiddleware(bearer) ==
  IF bearer = None THEN 401
  ELSE IF \A u \in users : u.id # bearer \/ ~u.isActive THEN 401
  ELSE IF \E u \in users : u.id = bearer /\ isLocked(u) THEN 423
  ELSE 0

chatKey(id) == <<"chat", id>>

\* one more hit under a limiter's key; the count saturates past the limit
countUnder(hits, key, max) ==
  [k \in DOMAIN hits \cup {key} |->
     IF k = key
       THEN (IF k \in DOMAIN hits
               THEN (IF hits[k] > max THEN hits[k] ELSE hits[k] + 1)
               ELSE 1)
       ELSE hits[k]]

\* one more hit under the chat limiter's key
countChatHit(key) == countUnder(authHits, key, ChatMax)

\* the limiter of server.js: 100 requests of an IP address in a window
RateMax == 100
IpKey == <<"ip", ClientIp>>

\* ALLOWED_ORIGINS, by default
AllowedOrigin == "http://localhost:3000"

\* appStack with the CSRF check moved before the sanitizer
appStack_csrfBeforeSanitizer ==
  <<"helmet", "cors", "compression", "limiter", "speedLimiter", "json", "urlencoded",
    "cookieParser", "session", "securityHeaders", "auditLogger", "csrfProtection",
    "inputValidation">>

\* app.use(...) of server.js, in order, up to the routers
appStack ==
  <<"helmet", "cors", "compression", "limiter", "speedLimiter", "json", "urlencoded",
    "cookieParser", "session", "securityHeaders", "auditLogger", "inputValidation",
    "csrfProtection">>

\* router.post('/message', ...) of routes/chat.js, in order
chatStages ==
  <<"authMiddleware", "chatLimiter", "chatMessageValidation", "handleValidationErrors",
    "criticalActionAudit", "handler">>

\* the whole stack a POST /api/chat/message goes through
chatStack == appStack \o chatStages

\* the stack from auditLogger on: what is left for a request that passed CORS,
\* the limiter of server.js and the body parsers
routedStack == SubSeq(chatStack, 11, Len(chatStack))

\* one POST /api/chat/message: origin is the Origin header ("" without one),
\* parsed tells whether the body is well-formed JSON
ChatCall(s, origin, parsed, bearer, message, token) ==
  [s |-> s, origin |-> origin, parsed |-> parsed, bearer |-> bearer,
   message |-> message, token |-> token]

\* the error handler of server.js, given an error of that status: it calls
\* logger.error first; when that throws, Express answers 500 itself
errorHandlerStatus(status) == IF loggerCall("error") THEN status ELSE 500

\* the status the route's handler answers
chatHandlerStatus(c) ==
  LET user == CHOOSE u \in users : u.id = c.bearer IN
  IF ~canAskQuestion(user) THEN 429
  ELSE IF ~hasKeyword(excelKeywords, c.message) THEN 400
  ELSE 200

\* the status a middleware answers, or 0 when it calls next()
stageAnswer(stage, c) ==
  CASE stage = "cors" ->
         IF c.origin \in {"", AllowedOrigin} THEN 0 ELSE errorHandlerStatus(500)
    [] stage = "limiter" -> IF hitsOf(IpKey) + 1 > RateMax THEN 429 ELSE 0
    [] stage = "json" -> IF c.parsed THEN 0 ELSE errorHandlerStatus(400)
    [] stage = "csrfProtection" ->
         IF verify(session[c.s].csrf, c.token) THEN 0 ELSE csrfRejectStatus
    [] stage = "authMiddleware" -> authMiddleware(c.bearer)
    [] stage = "chatLimiter" -> IF hitsOf(chatKey(c.bearer)) + 1 > ChatMax THEN 429 ELSE 0
    [] stage = "handleValidationErrors" ->
         IF chatMessageValidation(c.message) # {} THEN handleValidationErrors ELSE 0
    [] stage = "handler" -> chatHandlerStatus(c)
    [] OTHER -> 0

\* how a middleware writes its answer: "json" by res.status(..).json(..),
\* "send" by res.status(..).send(object) (the handler of express-rate-limit),
\* "final" when the error it throws or passes on is answered by Express itself
\* because the error handler of server.js throws too
written(stage) ==
  CASE stage \in {"limiter", "chatLimiter"} -> "send"
    [] stage \in {"cors", "json"} -> IF loggerCall("error") THEN "json" ELSE "final"
    [] stage \in {"csrfProtection", "handleValidationErrors"} ->
         IF loggerCall("warn") \/ loggerCall("error") THEN "json" ELSE "final"
    [] OTHER -> "json"

\* req.path where the answer is written: the routers strip their mount path
pathAt(stage) ==
  IF stage \in Range(chatStages) THEN "/message"
  ELSE IF stage = "csrfProtection" THEN "/chat/message"
  ELSE "/api/chat/message"

\* the index of the first middleware of the stack, from i on, that answers
RECURSIVE stopIndex(_, _, _)
stopIndex(stack, i, c) ==
  IF stageAnswer(stack[i], c) # 0 THEN i ELSE stopIndex(stack, i + 1, c)

\* the records logAPICall writes, through the res.send that auditLogger
\* replaced: one per call of res.send, and res.send(object) calls res.json,
\* which calls res.send again; nothing when res.send is never called
apiCalls(ran, status, c) ==
  LET stage == ran[Len(ran)]
      record == [method |-> "POST", path |-> pathAt(stage),
                 status |-> status, latency |-> 0,
                 userId |-> IF stage \in Range(SubSeq(chatStages, 2, Len(chatStages)))
                              THEN c.bearer ELSE None]
  IN IF "auditLogger" \notin Range(ran) \/ written(stage) = "final" THEN <<>>
     ELSE IF written(stage) = "send" THEN <<record, record>>
     ELSE <<record>>

\* the limiters' stores after the middleware that ran
hitsAfter(ran, c) ==
  LET afterLimiter == IF "limiter" \in Range(ran)
                        THEN countUnder(authHits, IpKey, RateMax) ELSE authHits
  IN IF "chatLimiter" \in Range(ran)
       THEN countUnder(afterLimiter, chatKey(c.bearer), ChatMax) ELSE afterLimiter

\* metadata.remainingQuestions, computed from the document incrementUsage saved
remainingQuestions(user) == user.dailyLimit - user.questionsAsked

\* a POST /api/chat/message that enters the stack at its first middleware
Exchange(stack, c) ==
  \E stop \in {stopIndex(stack, 1, c)} :
    \E status \in {stageAnswer(stack[stop], c)} :
      LET req == [MsgReq(c.message, c.token) EXCEPT !.bearer = c.bearer]
          ran == SubSeq(stack, 1, stop)
          stage == stack[stop]
          user == CHOOSE u \in users : u.id = c.bearer
          answered == stage = "handler" /\ status = 200
          body == IF answered THEN generateAIResponse(searchExcelKnowledge(c.message))
                  ELSE IF stage = "handler" /\ status = 400 THEN T_nonExcel
                  ELSE None
      IN
      /\ variant = "hardened"
      \* the questions explored are the first and the last UsageLeft of a day
      /\ answered => \/ incrementUsage(user).questionsAsked <= UsageLeft
                     \/ incrementUsage(user).questionsAsked >= roleLimit(user) - UsageLeft
      /\ session' = IF "csrfProtection" \in Range(ran)
                      THEN [session EXCEPT ![c.s].csrf = csrfSecretAfter(@)] ELSE session
      /\ authHits' = hitsAfter(ran, c)
      /\ users' = IF answered THEN MapSet(users, incrementUsage(user)) ELSE users
      /\ last' = [Event("chat", c.s, req, status, stage = "handler", body)
                    EXCEPT !.lookup = answered, !.stages = ran,
                           !.audit = apiCalls(ran, status, c),
                           !.remaining = IF answered
                                           THEN remainingQuestions(incrementUsage(user))
                                           ELSE 0]
      /\ UNCHANGED <<variant, proc, pending, functionStore, sockets, now, nextId, chatHistory>>

\* POST /api/chat/message, past CORS, the limiter of server.js and the body parsers
ChatHardened(s, bearer, message, token) ==
  Exchange(routedStack, ChatCall(s, "", TRUE, bearer, message, token))

\* POST /api/chat/message
ChatRequest(s, origin, parsed, bearer, message, token) ==
  Exchange(chatStack, ChatCall(s, origin, parsed, bearer, message, token))

\* a window of the limiter of server.js elapses
RateWindow ==
  /\ IpKey \in DOMAIN authHits
  /\ authHits' = [k \in DOMAIN authHits \ {IpKey} |-> authHits[k]]
  /\ last' = Event("window", "s1", NoReq, 0, FALSE, None)
  /\ UNCHANGED <<variant, proc, pending, functionStore, sockets, now, users, nextId, session, chatHistory>>

\* a window of the chat limiter elapses
ChatWindow ==
  /\ \E k \in DOMAIN authHits : k[1] = "chat"
  /\ authHits' = [k \in {j \in DOMAIN authHits : j[1] # "chat"} |-> authHits[k]]
  /\ last' = Event("window", "s1", NoReq, 0, FALSE, None)
  /\ UNCHANGED <<variant, proc, pending, functionStore, sockets, now, users, nextId, session, chatHistory>>

-----------------------------------------------------------------------------
(* Session, CSRF token and history routes of all servers *)

\* a client can only send the token it was issued
TokenKnown(s, token) == token = "issued" => session[s].csrf = "issued"

\* GET /api/auth/csrf-token: the simple and demo servers store a fresh token in
\* the session, the hardened server creates one from the session's secret
CsrfToken(s) ==
  /\ variant \in {"simple", "demo", "hardened"}
  /\ session' = [session EXCEPT ![s].csrf = "issued"]
  /\ last' = Event("csrfToken", s, NoReq, 200, TRUE, None)
  /\ UNCHANGED <<variant, proc, pending, functionStore, sockets, now, users, nextId, chatHistory, authHits>>

\* DeleteHistory answering 404 when the user has no history to delete
DeleteHistory_missingIs404(s, token) ==
  LET req == MsgReq(None, token) IN
  /\ IF variant \in {"simple", "fixed"} THEN
       /\ chatHistory' = [k \in DOMAIN chatHistory \ {historyKey(s)} |-> chatHistory[k]]
       /\ last' = Event("deleteHistory", s, req,
                        IF historyKey(s) \in DOMAIN chatHistory THEN 200 ELSE 404, TRUE, None)
       /\ UNCHANGED session
     ELSE IF variant = "hardened" THEN
       /\ session' = [session EXCEPT ![s].csrf = csrfSecretAfter(@)]
       /\ last' = Event("deleteHistory", s, req,
                        IF verify(session[s].csrf, token) THEN 404 ELSE csrfRejectStatus,
                        FALSE, None)
       /\ UNCHANGED chatHistory
     ELSE
       /\ last' = Event("deleteHistory", s, req, 404, FALSE, None)
       /\ UNCHANGED <<session, chatHistory>>
  /\ UNCHANGED <<variant, proc, pending, functionStore, sockets, now, users, nextId, authHits>>

\* DELETE /api/chat/history: a route of the simple and fixed servers only.
\* The hardened server runs csrfProtection on it and then finds no route.
DeleteHistory(s, token) ==
  LET req == MsgReq(None, token) IN
  /\ IF variant \in {"simple", "fixed"} THEN
       /\ chatHistory' = [k \in DOMAIN chatHistory \ {historyKey(s)} |-> chatHistory[k]]
       /\ last' = Event("deleteHistory", s, req, 200, TRUE, None)
       /\ UNCHANGED session
     ELSE IF variant = "hardened" THEN
       /\ session' = [session EXCEPT ![s].csrf = csrfSecretAfter(@)]
       /\ last' = Event("deleteHistory", s, req,
                        IF verify(session[s].csrf, token) THEN 404 ELSE csrfRejectStatus,
                        FALSE, None)
       /\ UNCHANGED chatHistory
     ELSE
       /\ last' = Event("deleteHistory", s, req, 404, FALSE, None)
       /\ UNCHANGED <<session, chatHistory>>
  /\ UNCHANGED <<variant, proc, pending, functionStore, sockets, now, users, nextId, authHits>>

\* time passes: a new window of the limiters begins
Tick(limit) ==
  /\ now < limit
  /\ now' = now + AuthWindow
  /\ authHits' = NoHits
  /\ last' = Event("tick", "s1", NoReq, 0, FALSE, None)
  /\ UNCHANGED <<variant, proc, pending, functionStore, sockets, users, nextId, session, chatHistory>>

\* the next calendar day begins
NextDay ==
  /\ toDateString(now) < MaxDay
  /\ now' = now + DayTime
  /\ authHits' = NoHits
  /\ last' = Event("day", "s1", NoReq, 0, FALSE, None)
  /\ UNCHANGED <<variant, proc, pending, functionStore, sockets, users, nextId, session, chatHistory>>

-----------------------------------------------------------------------------
(* hardened server: the realtime channel (services/socketService) *)

\* a handshake token that jwt.verify rejects
T_forged == <<"forged">>

\* jwt.verify(token, JWT_SECRET): a token is written as the id it was signed
\* for; any other value makes verify throw
jwtVerifies(token) == token # None /\ token[1] = "oid"

\* io.use(...): the message of the error passed to next(), "" for next()
socketAuth_acceptsLocked(token) ==
  IF token = None THEN "Authentication error: No token provided"
  ELSE IF ~jwtVerifies(token) THEN "Authentication error"
  ELSE IF \/ \A u \in users : u.id # token
          \/ \E u \in users : u.id = token /\ ~u.isActive
    THEN "Authentication error: Invalid user"
  ELSE ""

\* io.use(...): the message of the error passed to next(), "" for next()
socketAuth(token) ==
  IF token = None THEN "Authentication error: No token provided"
  ELSE IF ~jwtVerifies(token) THEN "Authentication error"
  ELSE IF \/ \A u \in users : u.id # token
          \/ \E u \in users : u.id = token /\ (~u.isActive \/ isLocked(u))
    THEN "Authentication error: Invalid user"
  ELSE ""

\* the room names `user:${id}` and `chat:${conversationId}`
userRoom(id) == <<"user", id>>
chatRoom(conversationId) == <<"chat", conversationId>>

\* the events io.on('connection') registers on a socket
socketHandlers ==
  {"join-chat", "send-message", "typing", "update-status", "leave-chat", "disconnect", "error"}

\* socket.emit(event): to the socket itself
emitTo(k, event) == [j \in DOMAIN sockets |-> IF j = k THEN <<event>> ELSE <<>>]

\* emitToRoom reaching the sending socket too
emitToRoom_includesSender(k, room, event) ==
  [j \in DOMAIN sockets |-> IF room \in sockets[j].rooms THEN <<event>> ELSE <<>>]

\* socket.to(room).emit(event): to the sockets in the room except the socket
emitToRoom(k, room, event) ==
  [j \in DOMAIN sockets |-> IF j # k /\ room \in sockets[j].rooms THEN <<event>> ELSE <<>>]

\* what each socket was sent by both emits, in order
both(first, second) == [j \in DOMAIN first |-> first[j] \o second[j]]

SocketEvent(op, k, conversationId, message, token) ==
  [Event(op, k, [MsgReq(message, "none") EXCEPT !.bearer = token], 0, TRUE, None)
     EXCEPT !.conversation = conversationId]

\* a client opens a connection: io.use, then io.on('connection')
Connect(k, token) ==
  /\ variant = "hardened"
  /\ k \notin DOMAIN sockets
  /\ IF socketAuth(token) = "" THEN
       /\ sockets' = [j \in DOMAIN sockets \cup {k} |->
                        IF j = k THEN [userId |-> token, rooms |-> {userRoom(token)},
                                       handlers |-> socketHandlers]
                        ELSE sockets[j]]
       /\ last' = [SocketEvent("connect", k, None, None, token)
                     EXCEPT !.emits = [j \in DOMAIN sockets \cup {k} |->
                                         IF j = k THEN <<"connected">> ELSE <<>>]]
     ELSE
       /\ UNCHANGED sockets
       /\ last' = [SocketEvent("connect", k, None, None, token)
                     EXCEPT !.handled = FALSE, !.error = socketAuth(token)]
  /\ UNCHANGED <<variant, proc, pending, functionStore, now, users, nextId, session, chatHistory, authHits>>

\* socket.on('join-chat')
JoinChat(k, conversationId) ==
  /\ k \in DOMAIN sockets
  /\ "join-chat" \in sockets[k].handlers
  /\ IF conversationId # None THEN
       /\ sockets' = [sockets EXCEPT ![k].rooms = @ \cup {chatRoom(conversationId)}]
       /\ last' = [SocketEvent("join-chat", k, conversationId, None, None)
                     EXCEPT !.emits = emitTo(k, "joined-chat")]
     ELSE
       /\ UNCHANGED sockets
       /\ last' = [SocketEvent("join-chat", k, conversationId, None, None)
                     EXCEPT !.emits = [j \in DOMAIN sockets |-> <<>>]]
  /\ UNCHANGED <<variant, proc, pending, functionStore, now, users, nextId, session, chatHistory, authHits>>

\* socket.on('leave-chat')
LeaveChat(k, conversationId) ==
  /\ k \in DOMAIN sockets
  /\ "leave-chat" \in sockets[k].handlers
  /\ IF conversationId # None THEN
       /\ sockets' = [sockets EXCEPT ![k].rooms = @ \ {chatRoom(conversationId)}]
       /\ last' = [SocketEvent("leave-chat", k, conversationId, None, None)
                     EXCEPT !.emits = emitToRoom(k, chatRoom(conversationId), "user-left")]
     ELSE
       /\ UNCHANGED sockets
       /\ last' = [SocketEvent("leave-chat", k, conversationId, None, None)
                     EXCEPT !.emits = [j \in DOMAIN sockets |-> <<>>]]
  /\ UNCHANGED <<variant, proc, pending, functionStore, now, users, nextId, session, chatHistory, authHits>>

\* the socket closes: it leaves its rooms, then socket.on('disconnect') runs
Disconnect(k) ==
  /\ k \in DOMAIN sockets
  /\ sockets' = [j \in DOMAIN sockets \ {k} |-> sockets[j]]
  /\ last' = [SocketEvent("disconnect", k, None, None, None)
                EXCEPT !.emits = [j \in DOMAIN sockets \ {k} |-> <<"user-status-changed">>]]
  /\ UNCHANGED <<variant, proc, pending, functionStore, now, users, nextId, session, chatHistory, authHits>>

\* a value of data.message that is not a string: an object
V_object == <<"[object Object]">>

\* typeof value
typeOf(value) == IF value = V_object THEN "object" ELSE "string"

Whitespace == {" ", "\n", "\t"}

\* String.prototype.trim
RECURSIVE trimStart(_)
trimStart(str) ==
  IF str # <<>> /\ Head(str) \in Whitespace THEN trimStart(Tail(str)) ELSE str

RECURSIVE trimEnd(_)
trimEnd(str) ==
  IF str # <<>> /\ str[Len(str)] \in Whitespace
    THEN trimEnd(SubSeq(str, 1, Len(str) - 1)) ELSE str

trim(str) == trimEnd(trimStart(str))

MessageMax == 5000

\* socket.on('send-message')
SendMessage(k, conversationId, message) ==
  LET user == CHOOSE u \in users : u.id = sockets[k].userId
      heard(error, code) ==
        [SocketEvent("send-message", k, conversationId, message, None)
           EXCEPT !.emits = emitTo(k, "error"), !.error = error, !.code = code]
  IN
  /\ k \in DOMAIN sockets
  /\ "send-message" \in sockets[k].handlers
  /\ last' =
       IF message = None \/ typeOf(message) # "string" \/ Len(trim(message)) = 0
         THEN heard("Invalid message format", "")
       ELSE IF Len(message) > MessageMax
         THEN heard("Message too long", "")
       ELSE IF \A u \in users : u.id # sockets[k].userId
         THEN heard("Failed to send message", "MESSAGE_SEND_ERROR")
       ELSE IF ~canAskQuestion(user)
         THEN heard("Daily limit exceeded", "DAILY_LIMIT_EXCEEDED")
       ELSE [SocketEvent("send-message", k, conversationId, message, None)
               EXCEPT !.emits = both(emitToRoom(k, chatRoom(conversationId), "new-message"),
                                     emitTo(k, "message-sent")),
                      !.body = trim(message)]
  /\ UNCHANGED <<variant, proc, pending, functionStore, now, users, nextId, session, chatHistory, authHits, sockets>>

-----------------------------------------------------------------------------
(* hardened server: POST /api/excel/functions *)

\* the names seedExcelFunctions inserts into the ExcelFunction collection
F_SUM == <<"S", "U", "M">>
F_VLOOKUP == <<"V", "L", "O", "O", "K", "U", "P">>
seedExcelFunctions == {F_SUM, F_VLOOKUP}

\* requireRole(roles): reqUser is req.user, as the set of its values (empty
\* when req.user is undefined); the status answered, or 0 for next()
requireRole(roles, reqUser) ==
  IF reqUser = {} THEN 401
  ELSE IF \A u \in reqUser : u.role \notin roles THEN 403
  ELSE 0

requireAdmin(reqUser) == requireRole({"admin"}, reqUser)

\* router.post('/functions', requireAdmin, dataChangeAudit(..), handler)
excelStages == <<"requireAdmin", "dataChangeAudit", "addFunction">>

functionsStack == appStack \o excelStages

\* the stack from auditLogger on
functionsRouted == SubSeq(functionsStack, 11, Len(functionsStack))

\* req.user when the middleware at index i runs: only authMiddleware sets it
reqUserAt(stack, i, bearer) ==
  IF "authMiddleware" \in Range(SubSeq(stack, 1, i - 1))
    THEN MapGet(users, bearer) ELSE {}

\* one POST /api/excel/functions; name is req.body.name, and the body
\* carries the other required fields
FunctionCall(s, bearer, token, name) ==
  [s |-> s, origin |-> "", parsed |-> TRUE, bearer |-> bearer,
   message |-> None, token |-> token, name |-> name]

\* new ExcelFunction(req.body).save(): the schema upper-cases the name, and
\* the unique index answers a second document of that name with error 11000
addFunctionStatus(name) ==
  IF toUpperCase(name) \in functionStore THEN 409 ELSE 201

\* the status the middleware at index i answers, or 0 when it calls next()
functionStageAnswer(stack, i, c) ==
  CASE stack[i] = "requireAdmin" -> requireAdmin(reqUserAt(stack, i, c.bearer))
    [] stack[i] = "addFunction" -> addFunctionStatus(c.name)
    [] OTHER -> stageAnswer(stack[i], c)

RECURSIVE functionStop(_, _, _)
functionStop(stack, i, c) ==
  IF functionStageAnswer(stack, i, c) # 0 THEN i ELSE functionStop(stack, i + 1, c)

\* a POST /api/excel/functions that enters the stack at its first middleware
FunctionExchange(stack, c) ==
  \E stop \in {functionStop(stack, 1, c)} :
    \E status \in {functionStageAnswer(stack, stop, c)} :
      LET ran == SubSeq(stack, 1, stop)
          req == [MsgReq(c.name, c.token) EXCEPT !.bearer = c.bearer]
          created == stack[stop] = "addFunction" /\ status = 201
      IN /\ variant = "hardened"
         /\ functionStore' = IF created THEN functionStore \cup {toUpperCase(c.name)}
                              ELSE functionStore
         /\ session' = IF "csrfProtection" \in Range(ran)
                         THEN [session EXCEPT ![c.s].csrf = csrfSecretAfter(@)]
                         ELSE session
         /\ last' = [Event("addFunction", c.s, req, status, stack[stop] = "addFunction", None)
                       EXCEPT !.stages = ran]
         /\ UNCHANGED <<variant, proc, pending, sockets, now, users, nextId, chatHistory, authHits>>

AddFunction(s, bearer, token, name) ==
  FunctionExchange(functionsRouted, FunctionCall(s, bearer, token, name))

-----------------------------------------------------------------------------
(* The servers' session and history routes: all variants *)

NoHistory == [k \in {} |-> <<>>]

Init ==
  /\ sockets = NoSockets
  /\ proc = Listening
  /\ pending = NoPending
  /\ functionStore = seedExcelFunctions
  /\ variant \in Variants
  /\ now = 1
  /\ users = IF variant = "fixed" THEN {demoUser} ELSE {}
  /\ nextId = 0
  /\ session = [s \in Sessions |-> NewSession]
  /\ chatHistory = NoHistory
  /\ authHits = NoHits
  /\ last = NoEvent

\* the requests the clients of the session servers send
SUsernames == {None, U_ab, U_demo, U_alice}
SEmails == {E_a}
SPasswords == {None, P_abc, P_demo123}
STokens == {"none", "issued"}
SMessages == {None, M_sum}

Next ==
  \/ \E s \in Sessions, username \in SUsernames, email \in SEmails,
        password \in SPasswords, token \in STokens :
       TokenKnown(s, token) /\ Register(s, username, email, password, token)
  \/ \E s \in Sessions, username \in SUsernames, password \in SPasswords, token \in STokens :
       TokenKnown(s, token) /\ Login(s, username, password, token)
  \/ \E s \in Sessions : Me(s)
  \/ \E s \in Sessions : CsrfToken(s)
  \/ \E s \in Sessions, message \in SMessages, token \in STokens :
       TokenKnown(s, token) /\ ChatMessage(s, message, token)
  \/ \E s \in Sessions : GetHistory(s)
  \/ \E s \in Sessions, token \in Tokens : TokenKnown(s, token) /\ DeleteHistory(s, token)

Spec == Init /\ [][Next]_vars

-----------------------------------------------------------------------------
(* The servers' login, logout and /me routes: all variants *)

NextSession ==
  \/ \E s \in Sessions, username \in {U_ab, U_alice}, password \in {P_abc, P_demo123},
        token \in STokens :
       TokenKnown(s, token) /\ Register(s, username, E_a, password, token)
  \/ \E s \in Sessions, username \in {U_demo, U_alice}, password \in {P_abc, P_demo123},
        token \in STokens :
       TokenKnown(s, token) /\ Login(s, username, password, token)
  \/ \E s \in Sessions : Me(s)
  \/ \E s \in Sessions, token \in STokens : TokenKnown(s, token) /\ Logout(s, token)
  \/ \E s \in Sessions : CsrfToken(s)

SpecSession == Init /\ [][NextSession]_vars

-----------------------------------------------------------------------------
(* The hardened server: registration *)

HSessions == {"s1"}
HUsernames == {U_ab, U_alice, U_demo}
HEmails == {E_a, E_A}
HPasswords == {P_demo123, P_strong}
HTokens == {"none", "issued"}

InitRegister ==
  /\ sockets = NoSockets
  /\ proc = Listening
  /\ pending = NoPending
  /\ functionStore = seedExcelFunctions
  /\ variant = "hardened"
  /\ now = 1
  /\ users = {}
  /\ nextId = 0
  /\ session = [s \in Sessions |-> NewSession]
  /\ chatHistory = NoHistory
  /\ authHits = NoHits
  /\ last = NoEvent

NextRegister ==
  \/ \E s \in HSessions : CsrfToken(s)
  \/ \E s \in HSessions, username \in HUsernames, email \in HEmails,
        password \in HPasswords, token \in HTokens :
       TokenKnown(s, token) /\ RegisterHardened(s, username, email, password, token)
  \/ \E s \in HSessions, id \in {u.id : u \in users} \cup {None} : VerifyEmail(s, id)
  \/ Tick(MaxNow)

SpecRegister == InitRegister /\ [][NextRegister]_vars

-----------------------------------------------------------------------------
(* The hardened server: from registration to the first login *)

RUsernames == {U_alice, U_demo}

InitVerify ==
  /\ sockets = NoSockets
  /\ proc = Listening
  /\ pending = NoPending
  /\ functionStore = seedExcelFunctions
  /\ variant = "hardened"
  /\ now = 1
  /\ users = {}
  /\ nextId = 0
  /\ session = [s \in Sessions |-> NewSession]
  /\ chatHistory = NoHistory
  /\ authHits = NoHits
  /\ last = NoEvent

NextVerify ==
  \/ \E s \in HSessions : CsrfToken(s)
  \/ \E s \in HSessions, account \in {<<U_alice, E_a>>, <<U_demo, E_b>>} :
       TokenKnown(s, "issued") /\ RegisterHardened(s, account[1], account[2], P_strong, "issued")
  \/ \E s \in HSessions, id \in {u.id : u \in users} \cup {None} : VerifyEmail(s, id)
  \/ \E s \in HSessions, username \in RUsernames :
       TokenKnown(s, "issued") /\ LoginHardened(s, username, P_strong, "issued")
  \/ NextDay

SpecVerify == InitVerify /\ [][NextVerify]_vars

-----------------------------------------------------------------------------
(* The hardened server: login of a registered account *)

\* the account the database holds when the server starts: registered one
\* window ago, its email verified or not
alice ==
  [User(<<"oid", 0>>, U_alice, E_a, P_strong)
     EXCEPT !.emailVerificationExpires = VerificationTime]

verified(user) ==
  [user EXCEPT !.isEmailVerified = TRUE, !.emailVerificationExpires = NoDate]

LUsernames == {U_alice, E_a}
LPasswords == {None, P_abc, P_strong}

InitLogin ==
  /\ sockets = NoSockets
  /\ proc = Listening
  /\ pending = NoPending
  /\ functionStore = seedExcelFunctions
  /\ variant = "hardened"
  /\ now = 1
  /\ users \in {{alice}, {verified(alice)}}
  /\ nextId = 1
  /\ session = [s \in Sessions |-> NewSession]
  /\ chatHistory = NoHistory
  /\ authHits = NoHits
  /\ last = NoEvent

NextLogin ==
  \/ \E s \in HSessions : CsrfToken(s)
  \/ \E s \in HSessions, username \in LUsernames, password \in LPasswords,
        token \in HTokens :
       TokenKnown(s, token) /\ LoginHardened(s, username, password, token)
  \/ Tick(MaxHorizon)

SpecLogin == InitLogin /\ [][NextLogin]_vars

-----------------------------------------------------------------------------
(* The chat route of all servers *)

\* the account the hardened server's database holds: verified, of either
\* role, with UsageLeft questions left today
asker(role) ==
  [verified(alice) EXCEPT
     !.role = role,
     !.questionsAsked = DailyLimit * (IF role = "premium" THEN PremiumFactor ELSE 1)
                          - UsageLeft,
     !.lastResetDate = 1]

Bearers == {None, alice.id}

InitChat ==
  /\ sockets = NoSockets
  /\ proc = Listening
  /\ pending = NoPending
  /\ functionStore = seedExcelFunctions
  /\ variant \in Variants
  /\ now = 1
  /\ users \in (IF variant = "fixed" THEN {{demoUser}}
                ELSE IF variant = "hardened" THEN {{asker("user")}, {asker("premium")}}
                ELSE {{}})
  /\ nextId = 1
  /\ session = [s \in Sessions |-> NewSession]
  /\ chatHistory = NoHistory
  /\ authHits = NoHits
  /\ last = NoEvent

NextChat ==
  \/ \E s \in HSessions : CsrfToken(s)
  \/ \E s \in HSessions, message \in Messages, token \in HTokens :
       TokenKnown(s, token) /\ ChatMessage(s, message, token)
  \/ \E s \in HSessions, bearer \in Bearers, message \in Messages, token \in HTokens :
       TokenKnown(s, token) /\ ChatHardened(s, bearer, message, token)
  \/ \E s \in HSessions : GetHistory(s)
  \/ ChatWindow
  \/ NextDay

SpecChat == InitChat /\ [][NextChat]_vars

-----------------------------------------------------------------------------
(* The hardened server: the usage counters of the chat route *)

\* the accounts of SpecChat, and one that is locked for the first windows
UsageAccounts ==
  {asker("user"), asker("premium"), [asker("user") EXCEPT !.lockUntil = 1 + LockTime]}

UMessages == {None, M_weather, M_sum, M_suuchi}

InitUsage ==
  /\ sockets = NoSockets
  /\ proc = Listening
  /\ pending = NoPending
  /\ functionStore = seedExcelFunctions
  /\ variant = "hardened"
  /\ now = 1
  /\ \E account \in UsageAccounts : users = {account}
  /\ nextId = 1
  /\ session = [s \in Sessions |-> NewSession]
  /\ chatHistory = NoHistory
  /\ authHits = NoHits
  /\ last = NoEvent

NextUsage ==
  \/ \E s \in HSessions : CsrfToken(s)
  \/ \E s \in HSessions, bearer \in Bearers, message \in UMessages, token \in HTokens :
       TokenKnown(s, token) /\ ChatHardened(s, bearer, message, token)
  \/ ChatWindow
  \/ NextDay

SpecUsage == InitUsage /\ [][NextUsage]_vars

-----------------------------------------------------------------------------
(* The hardened server: the whole stack of a chat message *)

RateLeft == 2

Origins == {"", AllowedOrigin, "http://evil.example"}
PMessages == {None, M_sum, M_weather}

\* the limiter of server.js has counted no request of the address, or all but
\* RateLeft of a window's requests
InitPipeline ==
  /\ sockets = NoSockets
  /\ proc = Listening
  /\ pending = NoPending
  /\ functionStore = seedExcelFunctions
  /\ variant = "hardened"
  /\ now = 1
  /\ users = {asker("user")}
  /\ nextId = 1
  /\ session = [s \in Sessions |-> NewSession]
  /\ chatHistory = NoHistory
  /\ authHits \in {NoHits, [k \in {IpKey} |-> RateMax - RateLeft]}
  /\ last = NoEvent

\* the requests explored are the first and the last RateLeft of a window
NextPipeline ==
  \/ \E s \in HSessions : CsrfToken(s)
  \/ \E s \in HSessions, origin \in Origins, parsed \in BOOLEAN, bearer \in Bearers,
        message \in PMessages, token \in HTokens :
       /\ TokenKnown(s, token)
       /\ ~parsed => message = None
       /\ hitsOf(IpKey) < RateLeft \/ hitsOf(IpKey) >= RateMax - RateLeft
       /\ ChatRequest(s, origin, parsed, bearer, message, token)
  \/ ChatWindow
  \/ RateWindow

SpecPipeline == InitPipeline /\ [][NextPipeline]_vars

-----------------------------------------------------------------------------
(* The hardened server: the realtime channel *)

SocketIds == {"k1", "k2", "k3"}

bob == verified(User(<<"oid", 1>>, U_ab, E_A, P_strong))

\* the account of alice as the database may hold it on the second day: within
\* its quota, with the quota used up today or yesterday, deactivated, locked
Accounts ==
  LET base == [verified(alice) EXCEPT !.lastResetDate = 1 + DayTime] IN
  {base,
   [base EXCEPT !.questionsAsked = DailyLimit],
   [base EXCEPT !.questionsAsked = DailyLimit, !.lastResetDate = 1],
   [base EXCEPT !.isActive = FALSE],
   [base EXCEPT !.lockUntil = 1 + DayTime + LockTime]}

HandshakeTokens == {None, T_forged, alice.id, bob.id, <<"oid", 9>>}

C_1 == <<"c", "1">>
C_2 == <<"c", "2">>
ConversationIds == {None, C_1, C_2}
\* the conversations the sockets join and leave
JoinedIds == {None, C_1}

FullMessage == [i \in 1..MessageMax |-> "a"]
LongMessage == [i \in 1..(MessageMax + 1) |-> "a"]
SocketMessages == {None, V_object, <<" ", " ">>, M_sum, <<" ">> \o M_sum, FullMessage, LongMessage}

InitSocket ==
  /\ sockets = NoSockets
  /\ proc = Listening
  /\ pending = NoPending
  /\ functionStore = seedExcelFunctions
  /\ variant = "hardened"
  /\ now = 1 + DayTime
  /\ \E account \in Accounts : users = {account, bob}
  /\ nextId = 2
  /\ session = [s \in Sessions |-> NewSession]
  /\ chatHistory = NoHistory
  /\ authHits = NoHits
  /\ last = NoEvent

NextSocket ==
  \/ \E k \in SocketIds, token \in HandshakeTokens : Connect(k, token)
  \/ \E k \in SocketIds, conversationId \in JoinedIds : JoinChat(k, conversationId)
  \/ \E k \in SocketIds, conversationId \in JoinedIds : LeaveChat(k, conversationId)
  \/ \E k \in SocketIds, conversationId \in ConversationIds, message \in SocketMessages :
       /\ message \notin {M_sum, <<" ">> \o M_sum} => conversationId = C_1
       /\ SendMessage(k, conversationId, message)
  \/ \E k \in SocketIds : Disconnect(k)

SpecSocket == InitSocket /\ [][NextSocket]_vars

-----------------------------------------------------------------------------
(* hardened server: the ExcelFunction collection and its admin route *)

admin == [verified(alice) EXCEPT !.role = "admin"]

FunctionBearers == {None, admin.id, bob.id, <<"oid", 9>>}

F_sum == <<"s", "u", "m">>
F_XLOOKUP == <<"X", "L", "O", "O", "K", "U", "P">>
FunctionNames == {F_SUM, F_sum, F_XLOOKUP}

InitFunctions ==
  /\ sockets = NoSockets
  /\ proc = Listening
  /\ pending = NoPending
  /\ functionStore = seedExcelFunctions
  /\ variant = "hardened"
  /\ now = 1
  /\ users = {admin, bob}
  /\ nextId = 2
  /\ session = [s \in Sessions |-> NewSession]
  /\ chatHistory = NoHistory
  /\ authHits = NoHits
  /\ last = NoEvent

NextFunctions ==
  \/ \E s \in Sessions : CsrfToken(s)
  \/ \E s \in Sessions, bearer \in FunctionBearers, token \in Tokens, name \in FunctionNames :
       AddFunction(s, bearer, token, name)

SpecFunctions == InitFunctions /\ [][NextFunctions]_vars

-----------------------------------------------------------------------------
(* The hardened server: the process and its signal handlers *)

Signals == {"SIGTERM", "SIGINT"}
ConnIds == {"c1", "c2", "c3", "c4", "c5"}

\* the listeners of a signal in the order process.on registered them:
\* server.js registers its two when the module loads, connectDB registers
\* its SIGINT listener during startServer
signalListeners(signal) ==
  IF signal = "SIGINT" THEN <<"server", "connectDB">> ELSE <<"server">>

\* the listener throws: the listeners of server.js begin with logger.info
listenerThrows(listener) == listener = "server" /\ ~loggerCall("info")

\* an exception nobody catches ends the process with code 1; the connections
\* still open are cut off
uncaught(p) ==
  [p EXCEPT !.phase = "exited", !.exitCode = 1, !.cut = p.conns, !.conns = {}]

\* process.exit(code)
exit(p, code) ==
  [p EXCEPT !.phase = "exited", !.exitCode = code, !.cut = p.conns, !.conns = {}]

\* the callback of server.close: logger.info, then process.exit(0)
closeCallback(p) ==
  IF loggerCall("info") THEN exit([p EXCEPT !.closed = TRUE], 0)
  ELSE uncaught([p EXCEPT !.closed = TRUE])

\* the process after a listener that does not throw.  server: server.close
\* stops listening, and its callback runs once no connection is open.
\* connectDB: it starts closing the database connection and exits when that
\* is done (MongoClosed).
afterListener(listener, p) ==
  IF p.phase = "exited" THEN p
  ELSE IF listener = "server"
    THEN IF p.conns = {} THEN closeCallback(p) ELSE [p EXCEPT !.phase = "closing"]
  ELSE [p EXCEPT !.phase = "closingDatabase"]

\* emit(signal): the listeners run in order until one throws
RECURSIVE runListeners(_, _, _)
runListeners(listeners, i, p) ==
  IF i > Len(listeners) THEN p
  ELSE IF listenerThrows(listeners[i]) THEN uncaught(p)
  ELSE runListeners(listeners, i + 1, afterListener(listeners[i], p))

\* a client opens a connection and sends a request
OpenConnection(c) ==
  /\ variant = "hardened"
  /\ proc.phase = "listening"
  /\ c \notin proc.conns
  /\ proc' = [proc EXCEPT !.conns = @ \cup {c}]
  /\ last' = Event("open", c, NoReq, 0, TRUE, None)
  /\ UNCHANGED <<variant, pending, functionStore, sockets, now, users, nextId, session,
                 chatHistory, authHits>>

\* the request of a connection is answered and the connection ends
EndConnection(c) ==
  /\ variant = "hardened"
  /\ proc.phase \in {"listening", "closing", "closingDatabase"}
  /\ c \in proc.conns
  /\ proc' = IF proc.phase = "closing" /\ proc.conns = {c}
               THEN closeCallback([proc EXCEPT !.conns = {}])
               ELSE [proc EXCEPT !.conns = @ \ {c}]
  /\ last' = Event("end", c, NoReq, 200, TRUE, None)
  /\ UNCHANGED <<variant, pending, functionStore, sockets, now, users, nextId, session,
                 chatHistory, authHits>>

\* the process receives SIGTERM or SIGINT
Signal(signal) ==
  /\ variant = "hardened"
  /\ proc.phase # "exited"
  /\ proc' = runListeners(signalListeners(signal), 1, proc)
  /\ last' = Event("signal", signal, NoReq, 0, TRUE, None)
  /\ UNCHANGED <<variant, pending, functionStore, sockets, now, users, nextId, session,
                 chatHistory, authHits>>

\* mongoose.connection.close() of connectDB's SIGINT listener is done:
\* process.exit(0).  No behaviour of the server takes this step: the listener
\* of server.js, which runs first, throws.
MongoClosed ==
  /\ variant = "hardened"
  /\ proc.phase = "closingDatabase"
  /\ proc' = exit(proc, 0)
  /\ last' = Event("mongoClosed", "SIGINT", NoReq, 0, TRUE, None)
  /\ UNCHANGED <<variant, pending, functionStore, sockets, now, users, nextId, session,
                 chatHistory, authHits>>

InitShutdown ==
  /\ sockets = NoSockets
  /\ proc = Listening
  /\ pending = NoPending
  /\ functionStore = seedExcelFunctions
  /\ variant = "hardened"
  /\ now = 1
  /\ users = {}
  /\ nextId = 0
  /\ session = [s \in Sessions |-> NewSession]
  /\ chatHistory = NoHistory
  /\ authHits = NoHits
  /\ last = NoEvent

NextShutdown ==
  \/ \E c \in ConnIds : OpenConnection(c)
  \/ \E c \in ConnIds : EndConnection(c)
  \/ \E signal \in Signals : Signal(signal)

SpecShutdown == InitShutdown /\ [][NextShutdown]_vars

-----------------------------------------------------------------------------
(* The hardened server: registrations that run interleaved *)

REmails == {E_a, E_b}

InitRegisterRace ==
  /\ sockets = NoSockets
  /\ proc = Listening
  /\ pending = NoPending
  /\ functionStore = seedExcelFunctions
  /\ variant = "hardened"
  /\ now = 1
  /\ users = {}
  /\ nextId = 0
  /\ session = [s \in Sessions |-> NewSession]
  /\ chatHistory = NoHistory
  /\ authHits = NoHits
  /\ last = NoEvent

NextRegisterRace ==
  \/ \E s \in HSessions : CsrfToken(s)
  \/ \E h \in Handlers, s \in HSessions, username \in RUsernames, email \in REmails,
        token \in HTokens :
       TokenKnown(s, token) /\ RegisterFind(h, s, username, email, P_strong, token)
  \/ \E h \in Handlers : RegisterSave(h)

SpecRegisterRace == InitRegisterRace /\ [][NextRegisterRace]_vars

-----------------------------------------------------------------------------
(* The hardened server: logins that run interleaved *)

\* failures counted before the server's current window
EarlierFailures == {0, MaxLoginAttempts - 2}

InitLoginRace ==
  /\ sockets = NoSockets
  /\ proc = Listening
  /\ pending = NoPending
  /\ functionStore = seedExcelFunctions
  /\ variant = "hardened"
  /\ now = 1
  /\ \E n \in EarlierFailures : users = {[verified(alice) EXCEPT !.loginAttempts = n]}
  /\ nextId = 1
  /\ session = [s \in Sessions |-> NewSession]
  /\ chatHistory = NoHistory
  /\ authHits = NoHits
  /\ last = NoEvent

NextLoginRace ==
  \/ \E s \in HSessions : CsrfToken(s)
  \/ \E h \in Handlers, s \in HSessions, password \in LPasswords, token \in HTokens :
       TokenKnown(s, token) /\ LoginFind(h, s, U_alice, password, token)
  \/ \E h \in Handlers : LoginFinish(h)
  \/ Tick(MaxNow)

SpecLoginRace == InitLoginRace /\ [][NextLoginRace]_vars

-----------------------------------------------------------------------------
(* Properties of the session servers' routes *)

UnsafeOps == {"register", "login", "chat", "deleteHistory"}

\* C1: a register request whose username is the username of a user already in
\* the store is answered 409 and leaves the user store unchanged, in every
\* server variant.
C1_DuplicateUsernameIsConflict ==
  [][(last'.op = "register" /\ \E u \in users : u.username = last'.req.username)
       => (last'.status = 409 /\ users' = users)]_vars

\* C5: a request with an unsafe method to an /api route whose token is missing
\* or does not verify against the session's CSRF secret is answered 403 and
\* does not reach its route handler.
C5_UnsafeRequestWithoutTokenIs403 ==
  [][(last'.op \in UnsafeOps /\ ~verify(session[last'.s].csrf, last'.req.token))
       => (last'.status = 403 /\ ~last'.handled)]_vars

\* every DELETE answers 200 and leaves the requesting user's history empty
DeleteAnswersEmpty ==
  (last'.op = "deleteHistory")
    => (last'.status = 200 /\ historyKey(last'.s) \notin DOMAIN chatHistory')

\* a GET by the same user right after a DELETE answers 200 with an empty list
GetAfterDeleteEmpty ==
  (last'.op = "getHistory" /\ last.op = "deleteHistory"
     /\ historyKey(last.s) = historyKey(last'.s))
    => (last'.status = 200 /\ last'.body = <<>>)

IsDemoLogin(e) ==
  e.op = "login" /\ e.req.username = U_demo /\ e.req.password = P_demo123

\* the demo login answers 200 and leaves the session logged in
DemoLoginSucceeds ==
  IsDemoLogin(last')
    => (last'.status = 200 /\ session'[last'.s].userId # None
          /\ (variant \in {"simple", "fixed"} => session'[last'.s].isLoggedIn))

\* /api/auth/me right after the demo login on the same session returns its user
MeAfterDemoLogin ==
  (IsDemoLogin(last) /\ last'.op = "me" /\ last'.s = last.s)
    => (last'.status = 200 /\ last'.body = last.body)

\* C9 as stated: a login with demo / demo123 answers 200 and marks the session
\* logged in, and a GET /api/auth/me issued next on the same session answers
\* 200 with the user the login returned.
C9_DemoLoginThenMe == [][DemoLoginSucceeds /\ MeAfterDemoLogin]_vars

\* C9 amended: on the simple and fixed servers, which alone define
\* /api/auth/me, a login with demo / demo123 answers 200 and marks the
\* session logged in, and a GET /api/auth/me issued next on the same session
\* answers 200 with the user the login returned.
C9_DemoLoginThenMeWhereRouted ==
  [][(variant \in {"simple", "fixed"}) => (DemoLoginSucceeds /\ MeAfterDemoLogin)]_vars

\* /api/auth/me answered 200 with the demo user right after the session's login
C9_Witness ==
  /\ variant \in {"simple", "fixed"}
  /\ last.op = "me" /\ last.after = "login" /\ last.status = 200
  /\ \E u \in users : u.username = U_demo /\ u.id = session[last.s].userId
                      /\ last.body = PublicUser(u)

-----------------------------------------------------------------------------
(* Properties of the hardened server's login *)

\* the account a login request names, as the handler's findOne reads it
LoginTarget == {u \in users : u.username = last'.req.username \/ u.email = last'.req.username}

\* the same account after the request
TargetAfter(u) == {v \in users' : v.id = u.id}

SameSessionUser == session'[last'.s].userId = session[last'.s].userId

\* a login request for an account that is locked when the request arrives
LockedAttempt == last'.op = "login" /\ \E u \in LoginTarget : isLocked(u)

\* a wrong password for an unlocked account with four failures counted
FifthWrong ==
  /\ last'.op = "login"
  /\ \E u \in LoginTarget : /\ ~isLocked(u) /\ u.lockUntil = NoDate
                            /\ u.loginAttempts = MaxLoginAttempts - 1
                            /\ ~comparePassword(u, last'.req.password)

FifthLocks ==
  \A u \in LoginTarget : \A v \in TargetAfter(u) :
    v.lockUntil = now + LockTime /\ v.loginAttempts = MaxLoginAttempts

\* a login request that carries the session's CSRF token, a username and a
\* password
WellFormedLogin ==
  /\ verify(session[last'.s].csrf, last'.req.token)
  /\ loginValidation(last'.req.username, last'.req.password) = {}

\* C2 as stated, of the login attempts that carry the CSRF token and both
\* fields: the 5th consecutive wrong-password login sets lockUntil to two hours
\* after the attempt, and every login attempt made before lockUntil is answered
\* 423, establishes no session and leaves loginAttempts and lockUntil unchanged
C2_LockedAttemptIs423 ==
  [][((FifthWrong /\ WellFormedLogin) => FifthLocks)
     /\ ((LockedAttempt /\ WellFormedLogin)
           => (last'.status = 423 /\ SameSessionUser /\ users' = users))]_vars

\* C2: the 5th consecutive wrong-password login that reaches the login handler
\* sets lockUntil to two hours after the attempt and loginAttempts to 5; every
\* login attempt made before lockUntil is rejected, establishes no session and
\* leaves loginAttempts and lockUntil unchanged, and it is answered 423
\* whenever it reaches the login handler (otherwise the CSRF check, the auth
\* rate limiter or the field validation has answered it)
C2_LockedAttemptIsRejected ==
  [][((FifthWrong /\ last'.handled) => (FifthLocks /\ last'.status = 401 /\ SameSessionUser))
     /\ (LockedAttempt => (/\ last'.status \notin {200, 201}
                           /\ SameSessionUser
                           /\ users' = users
                           /\ (last'.handled => last'.status = 423)))]_vars

\* the correct password was answered 423 while the account, locked by its
\* fifth failure, is still locked
C2_Witness ==
  /\ last.op = "login" /\ last.status = 423 /\ last.req.password = P_strong
  /\ \E u \in users : /\ u.username = U_alice /\ u.password = P_strong
                      /\ u.loginAttempts = MaxLoginAttempts
                      /\ u.lockUntil = last.lockUntil /\ u.lockUntil > now

\* a login request for an account whose lockUntil has passed
ExpiredTarget == {u \in LoginTarget : u.lockUntil # NoDate /\ u.lockUntil < now}

CorrectAfterExpiry ==
  /\ last'.op = "login"
  /\ \E u \in ExpiredTarget : comparePassword(u, last'.req.password)

WrongAfterExpiry ==
  /\ last'.op = "login"
  /\ \E u \in ExpiredTarget : ~comparePassword(u, last'.req.password)

LoggedInAndReset ==
  /\ last'.status = 200
  /\ \A u \in ExpiredTarget : /\ session'[last'.s].userId = u.id
                              /\ \A v \in TargetAfter(u) :
                                   v.loginAttempts = 0 /\ v.lockUntil = NoDate

CountedAsFirst ==
  /\ last'.status = 401
  /\ \A u \in ExpiredTarget : \A v \in TargetAfter(u) :
       v.loginAttempts = 1 /\ v.lockUntil = NoDate

\* C3 as stated, of the login attempts that carry the CSRF token and both
\* fields: once lockUntil has passed, a login with the correct password
\* succeeds, establishes a session and leaves the failure counter at zero with
\* lockUntil unset, and a wrong password counts as the first failure
C3_LoginAfterExpirySucceeds ==
  [][((CorrectAfterExpiry /\ WellFormedLogin) => LoggedInAndReset)
     /\ ((WrongAfterExpiry /\ WellFormedLogin) => CountedAsFirst)]_vars

VerifiedTarget == \A u \in ExpiredTarget : u.isEmailVerified

\* C3: once lockUntil has passed, a login that reaches the login handler with
\* the correct password of an account whose email is verified succeeds,
\* establishes a session and leaves the failure counter at zero with lockUntil
\* unset; a wrong password that reaches the handler counts as the first
\* failure and unsets lockUntil
C3_HandledLoginAfterExpirySucceeds ==
  [][((CorrectAfterExpiry /\ last'.handled /\ VerifiedTarget) => LoggedInAndReset)
     /\ ((WrongAfterExpiry /\ last'.handled) => CountedAsFirst)]_vars

\* the correct password was accepted for an account whose lock had expired
C3_Witness ==
  /\ last.op = "login" /\ last.status = 200
  /\ last.lockUntil # NoDate /\ last.lockUntil < now
  /\ \E u \in users : /\ session[last.s].userId = u.id
                      /\ u.loginAttempts = 0 /\ u.lockUntil = NoDate

-----------------------------------------------------------------------------
(* Properties of the hardened server's registration *)

\* a register request that csrfProtection and authLimiter let through
RegisterReached ==
  /\ last'.op = "register"
  /\ gateStatus(last'.s, authKey(last'.req.username, last'.req.email), last'.req.token) = 0

\* the username and password rules of the hardened path
MeetsRules ==
  /\ Len(last'.req.username) >= 3
  /\ Len(last'.req.password) >= 8
  /\ passwordPattern(last'.req.password)

NotTaken ==
  \A u \in users : /\ u.username # last'.req.username
                   /\ u.email # normalizeEmail(last'.req.email)

CreatedAndAuthenticated ==
  /\ Cardinality(users') = Cardinality(users) + 1
  /\ \E u \in users' \ users : session'[last'.s].userId = u.id

RejectedAsInvalid ==
  /\ last'.status = 400
  /\ users' = users
  /\ session'[last'.s].userId = None

\* C10: a register request succeeds exactly when the username has at least 3
\* characters, the password has at least 8 and meets the complexity rule, and
\* the username and email are not taken; on success exactly one user is
\* created and the session is authenticated as that user; a request that
\* breaks a rule is answered 400, creates no user and leaves the session
\* unauthenticated
C10_RegisterSucceedsExactlyWhenValid ==
  [][RegisterReached =>
       (/\ (last'.status = 201) <=> (MeetsRules /\ NotTaken)
        /\ (last'.status = 201) => CreatedAndAuthenticated
        /\ (~MeetsRules) => RejectedAsInvalid)]_vars

-----------------------------------------------------------------------------
(* Properties of the chat route *)

\* the account a chat request's access token names
AskingUser == {u \in users : u.id = last'.req.bearer}

\* a chat request that the stages before the message handling let through:
\* on the hardened server the CSRF check, authMiddleware and the chat limiter
Delivered ==
  /\ last'.op = "chat"
  /\ last'.req.message # None
  /\ variant = "hardened" =>
       /\ verify(session[last'.s].csrf, last'.req.token)
       /\ authMiddleware(last'.req.bearer) = 0
       /\ hitsOf(chatKey(last'.req.bearer)) + 1 <= ChatMax

SameDay(u) == toDateString(now) = toDateString(u.lastResetDate)

QuotaUsedUp == \A u \in AskingUser : ~canAskQuestion(u) /\ SameDay(u)

DayChanged == \A u \in AskingUser : ~SameDay(u)

\* C4: canAskQuestion() is true exactly while questionsAsked is below the
\* role-scaled daily limit; a chat request of a user whose counter has reached
\* the limit is answered 429, and after the calendar day has changed the
\* user's next chat request is allowed again and counted as the day's first
C4_QuotaResetsWithTheDay ==
  [][(Delivered /\ variant = "hardened" /\ hasKeyword(validatorKeywords, last'.req.message))
       => (/\ \A u \in AskingUser : canAskQuestion(u) <=> (u.questionsAsked < roleLimit(u))
           /\ QuotaUsedUp => (last'.status = 429)
           /\ DayChanged => (/\ last'.status = 200
                             /\ \A u \in AskingUser : \A v \in users' :
                                  v.id = u.id => v.questionsAsked = 1))]_vars

\* a message that, lower-cased, contains none of the Excel keywords
OutOfDomain(message) == message # None /\ ~hasKeyword(excelKeywords, message)

\* the text holds the syntax of a knowledge entry
HoldsEntry(text) ==
  \E i \in 1..Len(excelFunctions) : includes(text, excelFunctions[i].syntax)

\* C6: a chat message that, lower-cased, contains none of the Excel keywords
\* is answered with the fixed out-of-domain rejection; no knowledge lookup is
\* performed and the reply contains no knowledge entry
C6_OutOfDomainIsRejected ==
  [][(Delivered /\ OutOfDomain(last'.req.message) /\ \A u \in AskingUser : canAskQuestion(u))
       => (/\ last'.status = 400
           /\ last'.body = T_nonExcel
           /\ ~last'.lookup
           /\ ~HoldsEntry(last'.body))]_vars

SumSyntax == excelFunctions[1].syntax

\* C7: the reply to "SUM関数の使い方" and to "how to use SUM" is a 200 whose
\* text contains the SUM entry's syntax SUM(number1, [number2], ...)
C7_SumReplyHoldsSyntax ==
  [][(Delivered /\ last'.req.message \in {M_sumja, M_howsum}
        /\ \A u \in AskingUser : canAskQuestion(u))
       => (last'.status = 200 /\ includes(last'.body, SumSyntax))]_vars

-----------------------------------------------------------------------------
(* Properties of logout *)

Unauthenticated(sess) == ~sess.isLoggedIn /\ sess.userId = None

\* a logout succeeds and leaves the session unauthenticated
LogoutLeavesUnauthenticated ==
  last'.op = "logout" => (last'.status = 200 /\ Unauthenticated(session'[last'.s]))

\* /api/auth/me on a session that is not authenticated answers 401
MeNeedsAuthentication ==
  (last'.op = "me" /\ Unauthenticated(session[last'.s])) => last'.status = 401

\* only a login or register that succeeds authenticates a session
OnlyLoginAuthenticates ==
  \A s \in Sessions :
    (Unauthenticated(session[s]) /\ ~Unauthenticated(session'[s]))
      => (last'.s = s /\ last'.op \in {"login", "register"} /\ last'.status \in {200, 201})

\* C11 as stated, of every server: a logout succeeds, whether or not the
\* session was logged in, and leaves the session unauthenticated; GET
\* /api/auth/me on it answers 401 until a login or register succeeds
C11_LogoutThenMeIs401 ==
  [][LogoutLeavesUnauthenticated /\ MeNeedsAuthentication /\ OnlyLoginAuthenticates]_vars

\* C11: on the simple and fixed servers a logout succeeds, whether or not the
\* session was logged in, and leaves the session unauthenticated; GET
\* /api/auth/me on it answers 401 until a login or register succeeds
C11_LogoutThenMeIs401WhereRouted ==
  [][(variant \in {"simple", "fixed"})
       => (LogoutLeavesUnauthenticated /\ MeNeedsAuthentication /\ OnlyLoginAuthenticates)]_vars

\* a logout succeeded that destroyed the session of a logged-in user
C11_Witness ==
  /\ variant \in {"simple", "fixed"}
  /\ last.op = "logout" /\ last.status = 200
  /\ \E u \in users : last.body = u.id
  /\ Unauthenticated(session[last.s])

-----------------------------------------------------------------------------
(* Properties of the responder of the session servers *)

\* a message that matches no function, VBA trigger or problem pattern
Unmatched(message) ==
  /\ Len(generateResponse(message).functions) = 0
  /\ ~generateResponse(message).vba
  /\ generateResponse(message).solution = None

\* C12: every non-empty chat message is answered 200 with a reply text, never
\* 500, and the reply to a message that matches nothing holds no knowledge
\* entry
C12_ResponderNeverThrows ==
  [][(last'.op = "chat" /\ variant \in {"simple", "fixed"} /\ last'.req.message # None)
       => (/\ last'.status = 200
           /\ last'.body # None
           /\ Unmatched(last'.req.message) => ~HoldsEntry(last'.body))]_vars

-----------------------------------------------------------------------------
(* services/excelAI: the template chosen for a request *)

W_vba == <<"V","B","A">>
W_macro == <<"u30DE","u30AF","u30ED">>
W_auto == <<"u81EA","u52D5">>
W_space == <<" ">>
W_copyData == vbaTemplates[1].key
W_copydata == toLowerCase(vbaTemplates[1].key)
W_sortName == vbaTemplates[5].name
W_mailName == vbaTemplates[9].name
W_loop == customTemplates[1].key
W_sum == <<"S","U","M">>
Words == {W_vba, W_macro, W_auto, W_space, W_copyData, W_copydata, W_sortName,
          W_mailName, W_loop, W_sum}

MaxWords == 3

RECURSIVE Phrases(_)
Phrases(n) ==
  IF n = 0 THEN {<<>>}
  ELSE Phrases(n - 1) \cup {p \o w : p \in Phrases(n - 1), w \in Words}

VbaQueries == Phrases(MaxWords) \ {<<>>}

\* the service is loaded by the simple and fixed servers; the query is drawn
\* at the start and held in the pending event
InitVBA ==
  /\ sockets = NoSockets
  /\ proc = Listening
  /\ pending = NoPending
  /\ functionStore = seedExcelFunctions
  /\ variant \in {"simple", "fixed"}
  /\ now = 1
  /\ users = IF variant = "fixed" THEN {demoUser} ELSE {}
  /\ nextId = 0
  /\ session = [s \in Sessions |-> NewSession]
  /\ chatHistory = NoHistory
  /\ authHits = NoHits
  /\ \E query \in VbaQueries :
       last = Event("query", "s1", MsgReq(query, "none"), 0, FALSE, None)

\* one call of ExcelAI.generateResponse; the event holds response.vba
GenerateResponse ==
  /\ last.op = "query"
  /\ last' = Event("generateResponse", "s1", last.req, 0, TRUE,
                   responseVBA(last.req.message))
  /\ UNCHANGED <<variant, proc, pending, functionStore, sockets, now, users, nextId, session, chatHistory, authHits>>

NextVBA == GenerateResponse

SpecVBA == InitVBA /\ [][NextVBA]_vars

Chosen(tpl) ==
  [category |-> tpl.category, name |-> tpl.name,
   description |-> tpl.description, code |-> tpl.code]

\* the templates whose key the message contains
KeyContained(message) ==
  {i \in DOMAIN vbaTemplates : includes(message, vbaTemplates[i].key)}

\* the templates whose name or description the message contains
NameContained(message) ==
  {i \in DOMAIN vbaTemplates :
     \/ includes(message, vbaTemplates[i].name)
     \/ includes(message, vbaTemplates[i].description)}

IsSkeletonFor(vba, message) ==
  /\ vba.name = T_customName
  /\ includes(vba.code, message)

TriggeredVBA ==
  /\ last.op = "generateResponse"
  /\ wantsVBA(last.req.message)

KeyWins ==
  KeyContained(last.req.message) # {} =>
    \E i \in KeyContained(last.req.message) : last.body = Chosen(vbaTemplates[i])

NameIsSecond ==
  (KeyContained(last.req.message) = {} /\ NameContained(last.req.message) # {}) =>
    \E i \in NameContained(last.req.message) : last.body = Chosen(vbaTemplates[i])

SkeletonIsLast ==
  (KeyContained(last.req.message) = {} /\ NameContained(last.req.message) = {}) =>
    IsSkeletonFor(last.body, last.req.message)

\* C13: for a message with an automation trigger keyword the template is
\* chosen by strict priority: a template whose key the message contains; only
\* when there is none, a template whose name or description the message
\* contains; only when there is none either, the generic skeleton, which
\* echoes the request in its body.
C13_KeyThenNameThenSkeleton ==
  TriggeredVBA => (KeyWins /\ NameIsSecond /\ SkeletonIsLast)

-----------------------------------------------------------------------------
(* simple / fixed servers: the stored chat history *)

\* a POST /api/chat/message with a message, sent to a server that keeps a history
ChatSent ==
  /\ variant \in {"simple", "fixed"}
  /\ last'.op = "chat"
  /\ last'.req.message # None

\* the sender's history afterwards: the latest HistoryMax entries of the old
\* history followed by the user's entry and the bot's entry, in that order
HoldsLatest ==
  LET key == historyKey(last'.s)
      before == historyOf(key)
  IN /\ key \in DOMAIN chatHistory'
     /\ Len(chatHistory'[key]) <= HistoryMax
     /\ Len(chatHistory'[key]) >= 2
     /\ chatHistory'[key][Len(chatHistory'[key]) - 1] = <<"user", last'.req.message>>
     /\ chatHistory'[key][Len(chatHistory'[key])][1] = "bot"
     /\ SubSeq(chatHistory'[key], 1, Len(chatHistory'[key]) - 2)
          = sliceLast(before, HistoryMax - 2)

-----------------------------------------------------------------------------
(* simple / fixed servers: whose history a request touches *)

\* the identity a session's requests are made as: its user id, or 'guest' for
\* every session that is not logged in
IdentityOf(s) == IF session[s].userId = None THEN Guest ELSE session[s].userId

\* what the store holds for an identity
StoredFor(identity) ==
  IF identity \in DOMAIN chatHistory THEN chatHistory[identity] ELSE <<>>

IsSuffix(p, q) == Len(p) <= Len(q) /\ SubSeq(q, Len(q) - Len(p) + 1, Len(q)) = p

\* a message was posted or the history deleted in this step
WritesHistory == last'.op \in {"chat", "deleteHistory"}

\* every identity but the one the request was made as keeps its history
OthersKept ==
  \A identity \in (DOMAIN chatHistory \cup DOMAIN chatHistory') \ {IdentityOf(last'.s)} :
    /\ identity \in DOMAIN chatHistory
    /\ identity \in DOMAIN chatHistory'
    /\ chatHistory'[identity] = chatHistory[identity]

\* GET /api/chat/history answered with entries
ReadsHistory == last'.op = "getHistory" /\ last'.status = 200

\* the answer is the latest part of what is stored for the requester's identity
ReturnsOwn == IsSuffix(last'.body, StoredFor(IdentityOf(last'.s)))

-----------------------------------------------------------------------------
(* hardened server: email verification before the first login *)

\* a login was answered with the user, the access token and the refresh cookie
LoginGrants == last'.op = "login" /\ last'.status = 200

\* a session or tokens are given by a login only, and only to a verified user
GrantsOnlyVerified ==
  /\ \A s \in Sessions :
       (session'[s].userId # session[s].userId /\ session'[s].userId # None)
         => (/\ LoginGrants
             /\ last'.s = s
             /\ \E u \in users : u.id = session'[s].userId /\ u.isEmailVerified)
  /\ LoginGrants => \E u \in users : PublicUser(u) = last'.body /\ u.isEmailVerified

\* a registration issues a token that expires 24 hours later, and the date
\* stays as long as the user is not verified
IssuedForADay ==
  /\ (last'.op = "register" /\ last'.status = 201)
       => \E v \in users' :
            /\ \A u \in users : u.id # v.id
            /\ ~v.isEmailVerified
            /\ v.emailVerificationExpires = now + DayTime
  /\ \A u \in users : \A v \in users' :
       (u.id = v.id /\ ~v.isEmailVerified)
         => v.emailVerificationExpires = u.emailVerificationExpires

\* a user is verified only by presenting their own token before it expires
VerifiedByLiveTokenOnly ==
  \A v \in users' :
    v.isEmailVerified
      => \E u \in users :
           /\ u.id = v.id
           /\ \/ u.isEmailVerified
              \/ /\ last'.op = "verifyEmail"
                 /\ last'.param = u.id
                 /\ now < u.emailVerificationExpires

\* the users whose token, presented in this step, was neither used nor expired
LiveHolders ==
  {u \in users : u.id = last'.param /\ ~u.isEmailVerified /\ now < u.emailVerificationExpires}

\* a presented token verifies its user when it is live; a used, expired or
\* unknown one is answered as invalid and nothing changes
VerifiesOnce ==
  last'.op = "verifyEmail"
    => IF LiveHolders = {} THEN last'.status = 400 /\ users' = users /\ session' = session
       ELSE /\ last'.status = 200
            /\ Cardinality(users') = Cardinality(users)
            /\ \A w \in users \ LiveHolders : w \in users'
            /\ \A u \in LiveHolders : \E v \in users' : v.id = u.id /\ v.isEmailVerified

\* C30: on the hardened server a registered user gets a session and tokens from
\* login only after the verification token issued at registration was
\* presented before its 24-hour expiry; a token verifies at most once: presented
\* again, or after its expiry, it is answered as invalid and changes nothing.
C30_VerifiedBeforeLogin ==
  [][GrantsOnlyVerified /\ IssuedForADay /\ VerifiedByLiveTokenOnly /\ VerifiesOnce]_vars

\* a user who registered, verified and logged in presented the token again and
\* was refused
C30_Witness ==
  /\ last.op = "verifyEmail"
  /\ last.status = 400
  /\ \E u \in users :
       /\ u.id = last.param
       /\ u.isEmailVerified
       /\ \E s \in Sessions : session[s].userId = u.id

-----------------------------------------------------------------------------
(* hardened server: the order of the stages and what a rejected request leaves *)

\* the stages in the order the specification gives them: security headers,
\* CORS check, rate limit, body parsing, sanitization, CSRF check, auth
\* resolution, route handler
NamedStages ==
  <<"helmet", "cors", "limiter", "json", "inputValidation", "csrfProtection",
    "authMiddleware", "handler">>

IsNamed(stage) == stage \in Range(NamedStages)

IsPrefix(p, q) == Len(p) <= Len(q) /\ SubSeq(q, 1, Len(p)) = p

\* a chat message was answered in this step
ChatAnswered == last'.op = "chat"

\* the named stages ran in the given order, none skipped, up to the last
RanInOrder == IsPrefix(SelectSeq(last'.stages, IsNamed), NamedStages)

\* a stage answered the request with an error
AnsweredWithError == last'.status >= 400

\* a stage before the route handler answered
StoppedEarly == last'.stages[Len(last'.stages)] # "handler"

\* nothing ran after the stage that answered with an error: no handler when an
\* earlier stage answered, and no user record nor usage counter changed
NothingLater ==
  /\ StoppedEarly => ~last'.handled
  /\ users' = users

LoginState(sess) == [isLoggedIn |-> sess.isLoggedIn, userId |-> sess.userId]

LoginStateKept == \A s \in Sessions : LoginState(session'[s]) = LoginState(session[s])

\* C15 as stated: the stages run in the fixed order, and a request that a
\* stage answers with an error runs no later stage and no handler and changes
\* no user, no session and no usage counter.
C15_ErrorStopsTheChain ==
  [][ChatAnswered =>
       (RanInOrder /\ (AnsweredWithError => (NothingLater /\ session' = session)))]_vars

\* C15: the stages run in the fixed order, and a request that a stage answers
\* with an error runs no later stage and no handler and changes no user, no
\* session's login state and no usage counter (the CSRF check itself may have
\* stored a secret in the session).
C15_ErrorStopsTheChainButTheSecret ==
  [][ChatAnswered =>
       (RanInOrder /\ (AnsweredWithError => (NothingLater /\ LoginStateKept)))]_vars

\* a well-formed, authenticated question about Excel that the CSRF check rejected
C15_Witness ==
  /\ last.op = "chat"
  /\ last.stages = SubSeq(chatStack, 1, Len(appStack))
  /\ last.status >= 400
  /\ last.req.bearer = alice.id
  /\ last.req.message = M_sum
  /\ \E u \in users : u.id = alice.id /\ canAskQuestion(u)

-----------------------------------------------------------------------------
(* hardened server: the API-call records of a request *)

\* the request passed authMiddleware, which sets req.user
Authenticated(event) ==
  \E i \in 1..(Len(event.stages) - 1) : event.stages[i] = "authMiddleware"

\* the record the request is to leave
ApiCallOf(event) ==
  [method |-> "POST", path |-> "/api/chat/message", status |-> event.status,
   latency |-> 0,
   userId |-> IF Authenticated(event) THEN event.req.bearer ELSE None]

\* C16: every request that is answered, one that a stage before the handler
\* answered included, leaves exactly one API-call record, which holds its
\* method, path, final status and latency, and the user id when the request
\* was authenticated.
C16_OneApiCallRecord ==
  last.op = "chat" => last.audit = <<ApiCallOf(last)>>

-----------------------------------------------------------------------------
(* hardened server: properties of the realtime channel *)

\* the handshake token verifies and names an existing, active, unlocked user
NamesGoodUser(token) ==
  \E u \in users : u.id = token /\ u.isActive /\ ~isLocked(u)

AuthErrors ==
  {"Authentication error: No token provided", "Authentication error",
   "Authentication error: Invalid user"}

\* the connection attempt of this step was accepted and joined to user:<id>
AcceptedAndJoined ==
  /\ last'.s \in DOMAIN sockets'
  /\ sockets'[last'.s].userId = last'.req.bearer
  /\ userRoom(last'.req.bearer) \in sockets'[last'.s].rooms
  /\ last'.error = ""

\* the connection attempt of this step was rejected with an authentication error
RejectedConnection ==
  /\ last'.s \notin DOMAIN sockets'
  /\ last'.error \in AuthErrors
  /\ \A j \in DOMAIN last'.emits : last'.emits[j] = <<>>

ConnectionDecided ==
  IF NamesGoodUser(last'.req.bearer) THEN AcceptedAndJoined ELSE RejectedConnection

\* an event handler of a socket ran in this step
HandlerRan == last'.op \in socketHandlers

\* the socket was accepted before, for a user that exists
HandlerOfAccepted ==
  /\ last'.s \in DOMAIN sockets
  /\ \E u \in users : u.id = sockets[last'.s].userId
  /\ userRoom(sockets[last'.s].userId) \in sockets[last'.s].rooms

\* C17: a connection is accepted, and joined to user:<id>, only if its token
\* verifies and names an existing, active, unlocked user; otherwise it is
\* rejected with an authentication error, and event handlers run only for
\* accepted connections.
C17_OnlyGoodUsersConnect ==
  [][/\ (last'.op = "connect") => ConnectionDecided
     /\ HandlerRan => HandlerOfAccepted]_vars

\* the connection of a deactivated user was rejected
C17_Witness ==
  /\ last.op = "connect"
  /\ last.error = "Authentication error: Invalid user"
  /\ \E u \in users : u.id = last.req.bearer /\ ~u.isActive
  /\ last.s \notin DOMAIN sockets

\* a send-message event was handled in this step
MessageSent == last'.op = "send-message"

\* data.message is not a string, is empty or whitespace-only, or is longer
\* than 5000 characters
BadMessage(message) ==
  \/ message = V_object
  \/ message = None
  \/ \A i \in 1..Len(message) : message[i] \in Whitespace
  \/ Len(message) > MessageMax

\* the questions the user asked on the current day
AskedToday(user) ==
  IF toDateString(user.lastResetDate) = toDateString(now) THEN user.questionsAsked ELSE 0

WithinQuota(user) == AskedToday(user) < roleLimit(user)

Sender == CHOOSE u \in users : u.id = sockets[last'.s].userId

\* only the sender was sent something: one error event
ErrorToSenderOnly ==
  \A j \in DOMAIN last'.emits :
    last'.emits[j] = IF j = last'.s THEN <<"error">> ELSE <<>>

\* the message was accepted: the sender was sent message-sent
Accepted ==
  /\ last'.error = ""
  /\ last'.emits[last'.s] = <<"message-sent">>

MessageAnswered ==
  IF BadMessage(last'.req.message) THEN ErrorToSenderOnly
  ELSE IF WithinQuota(Sender) THEN Accepted
  ELSE ErrorToSenderOnly /\ last'.code = "DAILY_LIMIT_EXCEEDED"

\* C18: a send-message whose message is not a string, is empty or
\* whitespace-only or longer than 5000 characters is answered with an error
\* event to the sender only; a message of 1 to 5000 characters of a user
\* within the daily quota is accepted; one of a user over the quota is
\* rejected with DAILY_LIMIT_EXCEEDED and delivered to nobody.
C18_MessageValidated ==
  [][MessageSent => MessageAnswered]_vars

\* socket j is in the room of conversation c
Member(socks, j, conversationId) ==
  j \in DOMAIN socks /\ chatRoom(conversationId) \in socks[j].rooms

\* a socket is in chat:c exactly when it joined and has not since left or
\* disconnected
MembershipFollows ==
  \A j \in SocketIds, c \in ConversationIds \ {None} :
    Member(sockets', j, c) =
      IF last'.op = "join-chat" /\ last'.s = j /\ last'.conversation = c THEN TRUE
      ELSE IF last'.op = "leave-chat" /\ last'.s = j /\ last'.conversation = c THEN FALSE
      ELSE IF last'.op = "disconnect" /\ last'.s = j THEN FALSE
      ELSE Member(sockets, j, c)

\* what an accepted message sends: message-sent to the sender, new-message to
\* the other members of chat:c, nothing to anybody else
DeliveredToMembers ==
  /\ DOMAIN last'.emits = DOMAIN sockets
  /\ \A j \in DOMAIN sockets :
       last'.emits[j] =
         IF j = last'.s THEN <<"message-sent">>
         ELSE IF Member(sockets, j, last'.conversation) THEN <<"new-message">>
         ELSE <<>>

\* C19: for each accepted send-message to conversation c, every socket that
\* joined chat:c and has not since left or disconnected, other than the
\* sender, receives exactly one new-message; the sender receives exactly one
\* message-sent and no new-message; every other socket receives nothing.
C19_DeliveredToMembersOnly ==
  [][/\ MembershipFollows
     /\ (MessageSent /\ last'.error = "") => DeliveredToMembers]_vars

\* an accepted message of a member of chat:c1, with another member and a
\* connected socket that is not a member
C19_Witness ==
  /\ last.op = "send-message"
  /\ last.error = ""
  /\ last.conversation = C_1
  /\ Member(sockets, last.s, C_1)
  /\ \E j \in DOMAIN sockets \ {last.s} :
       Member(sockets, j, C_1) /\ last.emits[j] = <<"new-message">>
  /\ \E j \in DOMAIN sockets \ {last.s} :
       ~Member(sockets, j, C_1) /\ last.emits[j] = <<>>

-----------------------------------------------------------------------------
(* hardened server: properties of POST /api/excel/functions *)

FunctionPosted == last'.op = "addFunction"

\* the caller presents the token of an existing, active user of role admin
\* and the CSRF token of the session
ByAdmin ==
  /\ \E u \in users : u.id = last'.req.bearer /\ u.isActive /\ u.role = "admin"
  /\ verify(session[last'.s].csrf, last'.req.token)

\* the caller presents no token of an admin
ByOthers == \A u \in users : u.id = last'.req.bearer => u.role # "admin"

PostedName == toUpperCase(last'.req.message)

CreatedOrConflict ==
  IF PostedName \notin functionStore
    THEN last'.status = 201 /\ functionStore' = functionStore \cup {PostedName}
    ELSE last'.status = 409 /\ functionStore' = functionStore

FailsAndCreatesNothing ==
  last'.status >= 400 /\ functionStore' = functionStore

FunctionPostAnswered ==
  /\ ByAdmin => CreatedOrConflict
  /\ ByOthers => FailsAndCreatesNothing

\* C20: POST /api/excel/functions of an authenticated admin with a name not
\* yet in the store creates the entry and answers 201; with a name in the
\* store it answers 409 and the store is unchanged; of a non-admin or
\* unauthenticated caller it fails and creates nothing.
C20_AdminCreatesOthersFail ==
  [][FunctionPosted => FunctionPostAnswered]_vars

-----------------------------------------------------------------------------
(* hardened server: the lock of a user record *)

\* lockUntil is set and lies in the future
LockInFuture(user, time) == user.lockUntil # NoDate /\ user.lockUntil > time

\* isLocked of every stored record, read now
LockedIffInFuture == \A u \in users : isLocked(u) <=> LockInFuture(u, now)

\* the login handler, which reads isLocked, answers 423 exactly for a record
\* whose lockUntil lies in the future
HandlerReadsLock ==
  (last'.op = "login" /\ last'.handled /\ LoginTarget # {})
    => (last'.status = 423 <=> \E u \in LoginTarget : LockInFuture(u, now))

\* time passes and writes no record; a record whose lockUntil is reached is
\* not locked any more
UnlockedByTime ==
  (last'.op = "tick")
    => /\ users' = users
       /\ \A u \in users : (u.lockUntil # NoDate /\ u.lockUntil <= now') => (~isLocked(u))'

\* a successful login has called resetLoginAttempts
UnlockedByReset ==
  (last'.op = "login" /\ last'.status = 200)
    => \A u \in LoginTarget : \A v \in TargetAfter(u) :
         v.lockUntil = NoDate /\ (~isLocked(v))'

\* C21: of every stored user record isLocked is true if and only if lockUntil
\* is set and lies in the future; isLocked becomes false by the passage of
\* time alone, and it is false after resetLoginAttempts.
C21_LockedIffLockUntilInFuture ==
  [][LockedIffInFuture /\ LockedIffInFuture' /\ HandlerReadsLock
     /\ UnlockedByTime /\ UnlockedByReset]_vars

\* time alone has ended a lock: the record still holds the lockUntil that the
\* fifth failure set
C21_Witness ==
  /\ last.op = "tick"
  /\ \E u \in users : /\ u.lockUntil # NoDate /\ u.lockUntil <= now
                      /\ u.loginAttempts = MaxLoginAttempts
                      /\ ~isLocked(u)

-----------------------------------------------------------------------------
(* hardened server: requests that fail field validation *)

\* a register request that the CSRF check and the auth limiter let through
\* and whose express-validator result is not empty
FailsFieldValidation ==
  /\ last'.op = "register"
  /\ gateStatus(last'.s, authKey(last'.req.username, last'.req.email), last'.req.token) = 0
  /\ userRegistrationValidation(last'.req.username, last'.req.email,
                                last'.req.password) # {}

\* answered 400 at once: the route handler has not run and nothing is stored
AnsweredBadRequest ==
  /\ last'.status = 400
  /\ ~last'.handled
  /\ users' = users

\* C22: every request that fails field validation is answered immediately
\* with HTTP 400 and its route handler does not run; it is never surfaced as
\* a 500.
C22_ValidationFailureIs400 ==
  [][FailsFieldValidation => AnsweredBadRequest]_vars

-----------------------------------------------------------------------------
(* hardened server: shutdown *)

\* C23: on SIGTERM or SIGINT the process exits only after the callback of
\* server.close has fired, and no connection that was open when the signal
\* arrived is cut off by the exit.
C23_ExitsOnlyAfterDraining ==
  proc.phase = "exited" => (proc.closed /\ proc.cut = {})

-----------------------------------------------------------------------------
(* The in-memory user store *)

\* C24: after any sequence of register and login operations on the in-memory
\* user store, in any order, no two stored user records have the same
\* username.
C24_UsernamesAreUnique ==
  \A u \in users : \A v \in users : u.username = v.username => u.id = v.id

-----------------------------------------------------------------------------
(* hardened server: the usage counters of the chat route *)

HardenedChat == last'.op = "chat" /\ variant = "hardened"

\* no user record was written
UsageKept == users' = users

\* the asking user's counter went up by one, or to 1 with lastResetDate set
\* to now when the day has changed; nothing else was written
UsageCounted ==
  /\ AskingUser # {}
  /\ \A u \in AskingUser :
       users' = MapSet(users,
                  [u EXCEPT !.questionsAsked = IF SameDay(u) THEN @ + 1 ELSE 1,
                            !.lastResetDate = IF SameDay(u) THEN @ ELSE now])

\* C25: a chat request that is rejected leaves the user's questionsAsked and
\* lastResetDate unchanged, and each chat request answered with 200 raises
\* questionsAsked by exactly one, or sets it to 1 when it is the first
\* answered request of a new day.
C25_UsageCountsAnsweredRequests ==
  [][HardenedChat => (IF last'.status = 200 THEN UsageCounted ELSE UsageKept)]_vars

\* the first answered request of a new day set the counter to 1
C25_Witness ==
  /\ last.op = "chat" /\ last.status = 200
  /\ toDateString(now) > 0
  /\ \E u \in users : /\ u.id = last.req.bearer
                      /\ u.questionsAsked = 1
                      /\ u.lastResetDate = now

\* C26: in every 200 chat reply, metadata.remainingQuestions equals the
\* user's role-scaled daily limit minus questionsAsked after this request,
\* and is never negative.
C26_RemainingIsRoleScaled ==
  (last.op = "chat" /\ last.status = 200 /\ variant = "hardened")
    => /\ \A u \in users : u.id = last.req.bearer
            => last.remaining = roleLimit(u) - u.questionsAsked
       /\ last.remaining >= 0

-----------------------------------------------------------------------------
(* hardened server: handlers that run interleaved *)

\* a register handler's save came after another record with its username or
\* email had been stored
SaveLoses ==
  /\ last'.op = "register" /\ last'.handled
  /\ \E r \in pending \ pending' :
       \E u \in users : u.username = r.doc.username \/ u.email = r.doc.email

\* no two records share a username or an email
OneRecordPerKey ==
  \A u \in users : \A v \in users :
    (u.username = v.username \/ u.email = v.email) => u.id = v.id

\* C27: when two register requests with the same username (or email) are
\* processed concurrently, each checking for an existing user before either
\* has saved, at most one user record is created and the losing request is
\* answered 409, not 500.
C27_LosingRegisterIsConflict ==
  [][OneRecordPerKey /\ OneRecordPerKey'
     /\ (SaveLoses => (last'.status = 409 /\ users' = users))]_vars

\* C28: when wrong-password logins for the same account are processed
\* concurrently, the account is locked no later than the update that brings
\* loginAttempts to 5: no reachable state has loginAttempts >= 5 with
\* lockUntil unset.
C28_FiveFailuresLock ==
  \A u \in users : u.loginAttempts >= MaxLoginAttempts => u.lockUntil # NoDate

====
